---------------------------- MODULE Spec2Model ----------------------------
(***************************************************************************)
(* A model of berret's live monitor (class NpmMonitor, the status command  *)
(* in src/src/commands/stash.js, lines 65-700).                            *)
(*                                                                         *)
(* Seven specifications share the variables:                               *)
(*   SpecResolve   the chain resolver (analyzeDependencyChain and          *)
(*                 findPackageInLock), a pure function applied to bounded  *)
(*                 manifests and lock files;                               *)
(*   Spec          the installation tracker: detection events, chain       *)
(*                 resolution in flight, the 200 ms percentage tick, the   *)
(*                 500/300 ms completion poll and the 1000 ms linger, on   *)
(*                 a clock in milliseconds;                                *)
(*   SpecLive      the tracker with its timers firing when due, for what   *)
(*                 is to happen eventually;                                *)
(*   SpecReserved  the tracker of a universal run whose one project lies   *)
(*                 in a directory named GLOBAL;                            *)
(*   SpecDiscover  the status command from its call to the running         *)
(*                 monitor: project discovery and its timers, the watch    *)
(*                 registry, watcher errors, the interrupt and the end of  *)
(*                 the process;                                            *)
(*   SpecChains    the top-level dependencies (analyzeDependencyChains)    *)
(*                 under manifest changes;                                 *)
(*   SpecEstimate  the duration estimate of the percentage tick            *)
(*                 (estimateInstallDuration), applied to bounded names.    *)
(*                                                                         *)
(* JavaScript strings on which the code does character work (lock-file     *)
(* keys, package names) are sequences of one-character strings.  A         *)
(* directory or file is the sequence of its segments, each segment a       *)
(* string of that kind; a path string is a separator and such a sequence,  *)
(* two path strings being equal, as JavaScript strings, when both agree.   *)
(***************************************************************************)
EXTENDS Integers, Sequences, FiniteSets, TLC

VARIABLES
    \* ---- SpecResolve
    rManifest,      \* the content of <project>/package.json
    rLock,          \* the content of <project>/package-lock.json
    rPackage,       \* the package name being resolved
    rResult,        \* what the call to analyzeDependencyChain produced
    rTracked,       \* whether the watch callback went on to the tracker
    \* ---- Spec (the tracker)
    isUniversal,        \* this.isUniversal: universal or local monitoring
    monitoredProjects,  \* this.monitoredProjects, a Set, in insertion order
    files,              \* the package.json files present under the dependency directories
    inFlight,           \* 'addDir' callbacks suspended in await analyzeDependencyChain
    installs,           \* the install objects alive (in the Map, or held by a closure)
    activeInstalls,     \* this.activeInstalls: key -> install object
    progressBars,       \* this.progressBars: key -> bar
    multibar,           \* the bars the MultiBar holds, each with its value and payload
    timers,             \* pending setInterval / setTimeout callbacks, with the time left
    observed,           \* per active install: what the claims need to know of its history
    \* ---- SpecDiscover (the controller, discovery and the watch registry)
    platform,           \* process.platform
    cwd,                \* process.cwd(), the directory
    isQuick,            \* options.quick
    ignoreOnAbsolute,   \* whether the installed fast-glob also tries the ignore
                        \* patterns on an entry's absolute path
    phase,              \* where the controller (statusCommand) stands
    scans,              \* the calls of fastFindAndMonitorProjects, in order of start
    registering,        \* calls of watchProjectDirectoryWithProgress suspended in
                        \* await fs.pathExists(packageJsonPath)
    depWatchers,        \* chokidar watchers on <project>/node_modules: path string -> count
    manifestWatchers,   \* chokidar watchers on <project>/package.json: path string -> count
    unwatchable,        \* the directories and files on which chokidar.watch throws
    bareWatchers,       \* the watchers that have no 'error' listener: on the global
                        \* store, on 'node_modules' and on 'package.json' (local mode)
    exit,               \* how the process ended, "none" while it lives
    multibarStopped,    \* whether this.multibar.stop() was called
    bgTimers,           \* the controller's pending setTimeout / setInterval callbacks
    \* ---- SpecChains (the top-level dependencies, re-derived on manifest changes)
    manifests,          \* the content of package.json in the directories where it is edited
    dependencyChains,   \* this.dependencyChains: name -> entry
    handling,           \* 'change' callbacks suspended in await this.analyzeDependencyChains()
    \* ---- SpecEstimate (the duration estimate of the percentage tick)
    ePackage,           \* the package name of an installation
    eEstimates          \* the estimates its ticks have computed, in order

rvars == <<rManifest, rLock, rPackage, rResult, rTracked>>

tvars == <<isUniversal, monitoredProjects, files, inFlight, installs, activeInstalls,
           progressBars, multibar, timers, observed>>

dvars == <<platform, cwd, isQuick, ignoreOnAbsolute, phase, scans, registering,
           depWatchers, manifestWatchers, unwatchable, bareWatchers, exit,
           multibarStopped, bgTimers>>

cvars == <<manifests, dependencyChains, handling>>

evars == <<ePackage, eEstimates>>

vars == <<rvars, tvars, dvars, cvars, evars>>

-----------------------------------------------------------------------------
(* JavaScript values *)

\* null / undefined, comparable with strings (sequences of characters)
NULL == <<"<null>">>

Min(a, b) == IF a <= b THEN a ELSE b

\* String.prototype.endsWith
EndsWith(s, t) ==
    /\ Len(t) <= Len(s)
    /\ SubSeq(s, Len(s) - Len(t) + 1, Len(s)) = t

\* a test of the first character that never succeeds
StartsWith_Never(s, t) == FALSE

\* String.prototype.startsWith
StartsWith(s, t) ==
    /\ Len(t) <= Len(s)
    /\ SubSeq(s, 1, Len(t)) = t

\* String.prototype.indexOf, 1-based; 0 when t does not occur in s
IndexOf(s, t) ==
    LET hits == {i \in 1..(Len(s) - Len(t) + 1) : SubSeq(s, i, i + Len(t) - 1) = t}
    IN  IF hits = {} THEN 0 ELSE CHOOSE i \in hits : \A j \in hits : i <= j

\* String.prototype.includes
Includes(s, t) == IndexOf(s, t) # 0

\* String.prototype.replace(t, r) with a string pattern: the FIRST occurrence only
ReplaceFirst(s, t, r) ==
    LET i == IndexOf(s, t)
    IN  IF i = 0 THEN s
        ELSE SubSeq(s, 1, i - 1) \o r \o SubSeq(s, i + Len(t), Len(s))

\* s.split(sep).pop() for a one-character separator: what follows the last sep
SplitPop(s, sep) ==
    LET seps == {i \in 1..Len(s) : s[i] = sep}
    IN  IF seps = {} THEN s
        ELSE SubSeq(s, (CHOOSE i \in seps : \A j \in seps : j <= i) + 1, Len(s))

\* a || b on strings-or-null: the empty string and null are falsy
OrElse(a, b) == IF a = <<>> \/ a = NULL THEN b ELSE a

-----------------------------------------------------------------------------
(* Names and lock-file keys *)

SLASH == <<"/">>

NODE_MODULES == <<"n", "o", "d", "e", "_", "m", "o", "d", "u", "l", "e", "s">>

PkgA == <<"a">>

PkgB == <<"b">>

PkgBX == <<"b", "x">>

PkgC == <<"c">>

\* the key of a flat "packages" table for the install chain c1 > c2 > ... :
\* node_modules/c1/node_modules/c2/...
RECURSIVE FlatKey(_)
FlatKey(chain) ==
    IF Len(chain) = 0 THEN <<>>
    ELSE IF Len(chain) = 1 THEN NODE_MODULES \o SLASH \o chain[1]
    ELSE FlatKey(SubSeq(chain, 1, Len(chain) - 1)) \o SLASH
            \o NODE_MODULES \o SLASH \o chain[Len(chain)]

\* all sequences over S of length at most two
SeqUpTo2(S) == {<<>>} \cup {<<x>> : x \in S} \cup {<<x, y>> : x \in S, y \in S}

\* all sequences over S of length at most one
SeqUpTo1(S) == {<<>>} \cup {<<x>> : x \in S}

-----------------------------------------------------------------------------
(* The manifest and the lock file as the resolver reads them.               *)
(* kind "missing": no such file; "malformed": not JSON (fs.readJson         *)
(* rejects); "null": the JSON value null; "ok": a JSON object.              *)

EmptyMap == [n \in {} |-> ""]

MapOf(n, v) == [x \in {n} |-> v]

\* { ...a, ...b }: b's entries override a's
Spread(a, b) ==
    [n \in (DOMAIN a) \cup (DOMAIN b) |-> IF n \in DOMAIN b THEN b[n] ELSE a[n]]

\* allDeps[packageName] as a condition: the property exists and is truthy
\* (a missing property is undefined, the empty string is falsy)
Truthy(map, n) == n \in DOMAIN map /\ map[n] # ""

BadManifest(k) == [kind |-> k, dependencies |-> EmptyMap, devDependencies |-> EmptyMap]

OkManifest(deps, dev) == [kind |-> "ok", dependencies |-> deps, devDependencies |-> dev]

Versions == {"^4.0.0", ""}

Manifests ==
    {BadManifest(k) : k \in {"missing", "malformed", "null"}}
    \cup {OkManifest(d, v) :
            d \in {EmptyMap} \cup {MapOf(PkgA, "^4.0.0")}
                    \cup {MapOf(PkgB, x) : x \in Versions},
            v \in {EmptyMap} \cup {MapOf(PkgB, x) : x \in Versions}}

\* an entry's value in a nested "dependencies" tree: null, a scalar (string,
\* number), or an object with its own "dependencies" (absent and {} behave alike:
\* both leave the search of that entry empty)
NullInfo == [kind |-> "null", dependencies |-> <<>>]

ScalarInfo == [kind |-> "scalar", dependencies |-> <<>>]

ObjInfo(deps) == [kind |-> "object", dependencies |-> deps]

Entry(n, i) == [name |-> n, info |-> i]

TreeLevel2 == {Entry(n, ObjInfo(<<>>)) : n \in {PkgB, PkgC}}

TreeLevel1 ==
    {Entry(n, i) : n \in {PkgB, PkgC},
                   i \in {NullInfo, ScalarInfo} \cup {ObjInfo(d) : d \in SeqUpTo1(TreeLevel2)}}

TreeLevel0 ==
    {Entry(n, i) : n \in {PkgA, PkgB, PkgC},
                   i \in {NullInfo, ScalarInfo} \cup {ObjInfo(d) : d \in SeqUpTo1(TreeLevel1)}}

Trees == SeqUpTo2(TreeLevel0)

FlatKeys ==
    {FlatKey(c) : c \in {<<PkgB>>, <<PkgA>>, <<PkgA, PkgB>>, <<PkgC, PkgB>>,
                         <<PkgA, PkgC, PkgB>>, <<PkgB, PkgC, PkgB>>,
                         <<PkgA, PkgB, PkgC, PkgB>>, <<PkgBX, PkgB>>,
                         <<PkgA, PkgBX, PkgB>>, <<PkgA, PkgBX>>}}
    \cup {SLASH \o FlatKey(<<PkgB>>)}

BadLock(k) == [kind |-> k, packages |-> <<>>, dependencies |-> <<>>]

OkLock(pk, deps) == [kind |-> "ok", packages |-> pk, dependencies |-> deps]

Locks ==
    {BadLock(k) : k \in {"missing", "malformed", "null"}}
    \cup {OkLock(<<>>, t) : t \in Trees}
    \cup {OkLock(p, t) : p \in SeqUpTo2(FlatKeys),
                         t \in {<<>>, <<Entry(PkgC, ObjInfo(<<Entry(PkgB, ObjInfo(<<>>))>>))>>}}

ResolveNames == {PkgA, PkgB}

-----------------------------------------------------------------------------
(* findPackageInLock and analyzeDependencyChain *)

Found(p) == [r |-> "found", parent |-> p]

NotFound == [r |-> "null", parent |-> NULL]

Thrown == [r |-> "throw", parent |-> NULL]

\* the first loop: the flat "packages" table, in key order
RECURSIVE FindInPackages(_, _, _)
FindInPackages(packageName, keys, parent) ==
    IF keys = <<>> THEN NotFound
    ELSE LET pkgPath == Head(keys)
             suffix == SLASH \o NODE_MODULES \o SLASH \o packageName
         IN  IF EndsWith(pkgPath, suffix)
             THEN LET parentPath == ReplaceFirst(pkgPath, suffix, <<>>)
                      parentName == OrElse(SplitPop(parentPath, "/"), parent)
                  IN  Found(parentName)
             ELSE FindInPackages(packageName, Tail(keys), parent)

\* FindInDependencies handing its own parent down instead of the entry's name
RECURSIVE FindInDependencies_KeepParent(_, _, _)
FindInDependencies_KeepParent(packageName, deps, parent) ==
    IF deps = <<>> THEN NotFound
    ELSE LET depName == Head(deps).name
             depInfo == Head(deps).info
         IN  IF depName = packageName THEN Found(parent)
             ELSE IF depInfo.kind = "null" THEN Thrown
             ELSE LET result ==
                          IF depInfo.kind = "object" /\ depInfo.dependencies # <<>>
                          THEN FindInDependencies_KeepParent(packageName, depInfo.dependencies, parent)
                          ELSE NotFound
                  IN  IF result # NotFound THEN result
                      ELSE FindInDependencies_KeepParent(packageName, Tail(deps), parent)

\* the second loop: the nested "dependencies" tree, depth first in entry order;
\* reading .dependencies of a null entry raises a TypeError
RECURSIVE FindInDependencies(_, _, _)
FindInDependencies(packageName, deps, parent) ==
    IF deps = <<>> THEN NotFound
    ELSE LET depName == Head(deps).name
             depInfo == Head(deps).info
         IN  IF depName = packageName THEN Found(parent)
             ELSE IF depInfo.kind = "null" THEN Thrown
             ELSE LET result ==
                          IF depInfo.kind = "object" /\ depInfo.dependencies # <<>>
                          THEN FindInDependencies(packageName, depInfo.dependencies, depName)
                          ELSE NotFound
                  IN  IF result # NotFound THEN result
                      ELSE FindInDependencies(packageName, Tail(deps), parent)

findPackageInLock(packageName, lockJson, parent) ==
    IF lockJson.kind = "null" THEN Thrown
    ELSE LET flat == FindInPackages(packageName, lockJson.packages, parent)
         IN  IF flat # NotFound THEN flat
             ELSE FindInDependencies(packageName, lockJson.dependencies, parent)

ChainInfo(t, p, why) == [type |-> t, parent |-> p, reason |-> why]

Raised == ChainInfo("raised", NULL, <<"", NULL>>)

Pending == ChainInfo("pending", NULL, <<"", NULL>>)

UserRequested == ChainInfo("user-requested", NULL, <<"Direct dependency in package.json", NULL>>)

SourceUnknown == ChainInfo("unknown", NULL, <<"Installation source unknown", NULL>>)

CouldNotAnalyze == ChainInfo("unknown", NULL, <<"Could not analyze dependency chain", NULL>>)

DependencyOf(p) ==
    ChainInfo("dependency", p, <<"Dependency of ", OrElse(p, <<"unknown package">>)>>)

\* the try block reading the lock file without asking whether it exists
AnalyzeTry_NoPathExists(packageName, manifest, lock) ==
    IF manifest.kind # "ok" THEN Raised
    ELSE LET allDeps == Spread(manifest.dependencies, manifest.devDependencies)
         IN  IF Truthy(allDeps, packageName) THEN UserRequested
             ELSE IF lock.kind \in {"missing", "malformed"} THEN Raised
             ELSE LET packageInfo == findPackageInLock(packageName, lock, NULL)
                  IN  IF packageInfo = Thrown THEN Raised
                      ELSE IF packageInfo # NotFound THEN DependencyOf(packageInfo.parent)
                      ELSE SourceUnknown

\* the body of the try block of analyzeDependencyChain; Raised when it throws
AnalyzeTry(packageName, manifest, lock) ==
    IF manifest.kind # "ok" THEN Raised
    ELSE LET allDeps == Spread(manifest.dependencies, manifest.devDependencies)
         IN  IF Truthy(allDeps, packageName) THEN UserRequested
             ELSE IF lock.kind = "missing" THEN SourceUnknown
             ELSE IF lock.kind = "malformed" THEN Raised
             ELSE LET packageInfo == findPackageInLock(packageName, lock, NULL)
                  IN  IF packageInfo = Thrown THEN Raised
                      ELSE IF packageInfo # NotFound THEN DependencyOf(packageInfo.parent)
                      ELSE SourceUnknown

\* analyzeDependencyChain without its catch block
analyzeDependencyChain_NoCatch(packageName, manifest, lock) ==
    AnalyzeTry(packageName, manifest, lock)

\* try { ... } catch (error) { return unknown }
analyzeDependencyChain(packageName, manifest, lock) ==
    LET r == AnalyzeTry(packageName, manifest, lock)
    IN  IF r = Raised THEN CouldNotAnalyze ELSE r

-----------------------------------------------------------------------------
(* The tracker: names, paths, keys *)

PkgMs == <<"m", "s">>

PkgLodash == <<"l", "o", "d", "a", "s", "h">>

PkgHidden == <<".", "b", "i", "n">>

LOCAL_NAME == <<"L", "O", "C", "A", "L">>

GLOBAL_NAME == <<"G", "L", "O", "B", "A", "L">>

PACKAGE_JSON == <<"p", "a", "c", "k", "a", "g", "e", ".", "j", "s", "o", "n">>

COLON == <<":">>

DOT == <<".">>

BACKSLASH == <<"\\">>

\* a path string as the process builds it (path.join, process.cwd()): with the
\* platform's separator
Native(pf, segments) ==
    [sep |-> IF pf = "win32" THEN BACKSLASH ELSE SLASH, segs |-> segments]

\* the directory or file a path string names
Segments(pathString) == pathString.segs

\* path.basename of a path given as its segments
Basename(path) == path[Len(path)]

\* getGlobalNodeModulesPath() off win32: /usr/local/lib/node_modules
GlobalNodeModulesPath == <<<<"u", "s", "r">>, <<"l", "o", "c", "a", "l">>, <<"l", "i", "b">>, NODE_MODULES>>

\* no path (packagePath left undefined)
NoPath == <<>>

\* const key = `${projectName}:${packageName}`
Key(projectName, packageName) == projectName \o COLON \o packageName

\* the three kinds of dependency-directory watcher, each with the directory it
\* watches and the project name its callback passes to the tracker
LocalWatcher == [kind |-> "local", path |-> <<>>]

GlobalWatcher == [kind |-> "global", path |-> <<>>]

ProjectWatcher(projectPath) == [kind |-> "project", path |-> projectPath]

WatchedDir(w) ==
    CASE w.kind = "local" -> <<NODE_MODULES>>
      [] w.kind = "global" -> GlobalNodeModulesPath
      [] OTHER -> Segments(w.path) \o <<NODE_MODULES>>

ProjectNameOf(w) ==
    CASE w.kind = "local" -> LOCAL_NAME
      [] w.kind = "global" -> GLOBAL_NAME
      [] OTHER -> Basename(Segments(w.path))

\* <dependency directory>/<package>/package.json
ManifestFile(dir, packageName) == dir \o <<packageName, PACKAGE_JSON>>

\* the progress value, an exact fraction n/d in lowest terms
RECURSIVE GCD(_, _)
GCD(a, b) == IF b = 0 THEN a ELSE GCD(b, a % b)

Rat(n, d) == LET g == GCD(n, d) IN [n |-> n \div g, d |-> d \div g]

RatLeq(a, b) == a.n * b.d <= b.n * a.d

RatMin(a, b) == IF RatLeq(a, b) THEN a ELSE b

-----------------------------------------------------------------------------
(* estimateInstallDuration, formatETA, getStatusText *)

LargePackages == {<<"r", "e", "a", "c", "t">>, <<"a", "n", "g", "u", "l", "a", "r">>, <<"v", "u", "e">>, <<"w", "e", "b", "p", "a", "c", "k">>, <<"t", "y", "p", "e", "s", "c", "r", "i", "p", "t">>, <<"b", "a", "b", "e", "l">>}

MediumPackages == {<<"l", "o", "d", "a", "s", "h">>, <<"m", "o", "m", "e", "n", "t">>, <<"a", "x", "i", "o", "s">>, <<"e", "x", "p", "r", "e", "s", "s">>}

\* the estimate with the two lists tried in the other order
estimateInstallDuration_MediumFirst(packageName) ==
    IF \E pkg \in MediumPackages : Includes(packageName, pkg) THEN 4000
    ELSE IF \E pkg \in LargePackages : Includes(packageName, pkg) THEN 8000
    ELSE 2000

estimateInstallDuration(packageName) ==
    IF \E pkg \in LargePackages : Includes(packageName, pkg) THEN 8000
    ELSE IF \E pkg \in MediumPackages : Includes(packageName, pkg) THEN 4000
    ELSE 2000

\* formatETA: whole seconds, rounded up; '0s' at or below zero
formatETA(milliseconds) ==
    IF milliseconds <= 0 THEN <<0, "s">>
    ELSE <<(milliseconds + 999) \div 1000, "s">>

Calculating == <<0, "calculating...">>

getStatusText(chainInfo) ==
    IF chainInfo.type = "user-requested" THEN <<"User Package", NULL>>
    ELSE IF chainInfo.type = "dependency" THEN <<"Dep of ", chainInfo.parent>>
    ELSE <<"Installing...", NULL>>

Complete == <<"Complete!", NULL>>

-----------------------------------------------------------------------------
(* SpecResolve: one 'addDir' callback of a project watcher                  *)
(* (watchProjectDirectoryWithProgress, lines 428-439) on a bounded manifest *)
(* and lock file: it awaits analyzeDependencyChain and, unless that raised, *)
(* goes on to trackInstallationWithProgress.                                *)

\* the tracker at rest, for the specifications that do not run it
TrackerIdle ==
    /\ isUniversal = FALSE
    /\ monitoredProjects = <<>>
    /\ files = {}
    /\ inFlight = <<>>
    /\ installs = <<>>
    /\ activeInstalls = <<>>
    /\ progressBars = <<>>
    /\ multibar = <<>>
    /\ timers = {}
    /\ observed = <<>>

\* the controller before the status command, for the specifications that do
\* not run it
DiscoverIdle ==
    /\ platform = "linux"
    /\ cwd = <<>>
    /\ isQuick = FALSE
    /\ ignoreOnAbsolute = FALSE
    /\ phase = "idle"
    /\ scans = <<>>
    /\ registering = {}
    /\ depWatchers = <<>>
    /\ manifestWatchers = <<>>
    /\ unwatchable = {}
    /\ bareWatchers = {}
    /\ exit = "none"
    /\ multibarStopped = FALSE
    /\ bgTimers = {}

\* no manifest is edited in the specifications that do not follow the
\* top-level dependencies
ChainsIdle ==
    /\ manifests = <<>>
    /\ dependencyChains = <<>>
    /\ handling = <<>>

EstimateIdle ==
    /\ ePackage = <<>>
    /\ eEstimates = <<>>

ResolveInit ==
    /\ TrackerIdle
    /\ DiscoverIdle
    /\ ChainsIdle
    /\ EstimateIdle
    /\ rManifest \in Manifests
    /\ rLock \in Locks
    /\ rPackage \in ResolveNames
    /\ rResult = Pending
    /\ rTracked = FALSE

\* const chainInfo = await this.analyzeDependencyChain(packageName, projectPath)
ResolveCall ==
    /\ rResult = Pending
    /\ rResult' = analyzeDependencyChain(rPackage, rManifest, rLock)
    /\ UNCHANGED <<rManifest, rLock, rPackage, rTracked, tvars, dvars, cvars, evars>>

\* this.trackInstallationWithProgress(packageName, projectName, chainInfo):
\* reached only when the await returned a value
ResolveTrack ==
    /\ rResult \notin {Pending, Raised}
    /\ ~rTracked
    /\ rTracked' = TRUE
    /\ UNCHANGED <<rManifest, rLock, rPackage, rResult, tvars, dvars, cvars, evars>>

ResolveNext == ResolveCall \/ ResolveTrack

SpecResolve == ResolveInit /\ [][ResolveNext]_vars

-----------------------------------------------------------------------------
(* Spec: the installation tracker                                           *)
(*                                                                          *)
(* The code reads the clock only as Date.now() - install.startTime and sets *)
(* timers by their delay, so the model keeps, for each install, the time    *)
(* elapsed since startTime and, for each timer, the time left.  A timer     *)
(* runs when its time is up: time does not pass a timer that is due.        *)

\* bounds of the model
MaxLive == 2

TimeStep == 100

MaxElapsed == 2000

WaitCap == 600

\* the delays the code sets
TickMs == 200

FirstPollMs == 500

PollMs_Slow == 300 + 300

PollMs == 300

LingerMs == 1000

ProgressCap == 95

BarTotal == 100

\* the projects of a universal run: two directories of the same name, and
\* the bootstrap project's manifest and lock file (every project has the same)
ProjectFooW == Native("linux", <<<<"w">>, <<"f", "o", "o">>>>)

ProjectFooV == Native("linux", <<<<"v">>, <<"f", "o", "o">>>>)

UniversalProjects == <<ProjectFooW, ProjectFooV>>

TrackerManifest == OkManifest(MapOf(PkgLodash, "^4.0.0"), EmptyMap)

TrackerLock == OkLock(<<>>, <<Entry(PkgLodash, ObjInfo(<<Entry(PkgMs, ObjInfo(<<>>))>>))>>)

\* the names of the entries that appear in a watched dependency directory
EntryNames(w) ==
    CASE w.kind = "local" -> {PkgMs, PkgLodash, PkgHidden}
      [] w.kind = "global" -> {PkgMs}
      [] OTHER -> {PkgMs, PkgHidden}

\* the watchers a run has: the local one (watchNodeModulesWithProgress), or one
\* per monitored project and the global one
Watchers ==
    IF isUniversal
    THEN {ProjectWatcher(monitoredProjects[i]) : i \in DOMAIN monitoredProjects}
            \cup {GlobalWatcher}
    ELSE {LocalWatcher}

\* maps (JavaScript Map, and the bag of suspended callbacks)
Without(map, k) == [x \in (DOMAIN map) \ {k} |-> map[x]]

With(map, k, v) == [x \in (DOMAIN map) \cup {k} |-> IF x = k THEN v ELSE map[x]]

BagAdd(bag, e) == With(bag, e, IF e \in DOMAIN bag THEN bag[e] + 1 ELSE 1)

BagRemove(bag, e) == IF bag[e] = 1 THEN Without(bag, e) ELSE With(bag, e, bag[e] - 1)

RECURSIVE BagSize(_)
BagSize(bag) ==
    IF DOMAIN bag = {} THEN 0
    ELSE LET e == CHOOSE x \in DOMAIN bag : TRUE
         IN  bag[e] + BagSize(Without(bag, e))

\* a bar of the MultiBar: its value and its payload
Bar(v, pkg, st, eta) == [value |-> v, package |-> pkg, status |-> st, eta_formatted |-> eta]

Timer(k, ms, i, key, pkg, proj) ==
    [kind |-> k, left |-> ms, inst |-> i, key |-> key, packageName |-> pkg, projectName |-> proj]

\* the install objects still referenced: by the Map, or by a timer's closure
Referenced(act, tms) == {act[k] : k \in DOMAIN act} \cup {t.inst : t \in tms}

Collect(objs, act, tms) == [i \in (DOMAIN objs) \cap Referenced(act, tms) |-> objs[i]]

\* the progress without its cap
Progress_NoCap(elapsed, estimatedDuration) == Rat(elapsed * 100, estimatedDuration)

\* the progress as a fraction of 1 instead of a percentage
Progress_Unscaled(elapsed, estimatedDuration) ==
    RatMin(Rat(ProgressCap, 1), Rat(elapsed, estimatedDuration))

\* progress = Math.min(95, (elapsed / estimatedDuration) * 100)
Progress(elapsed, estimatedDuration) ==
    RatMin(Rat(ProgressCap, 1), Rat(elapsed * 100, estimatedDuration))

\* the path checkComplete looks at for a project name
PackagePath(projectName, packageName) ==
    IF projectName = GLOBAL_NAME
    THEN ManifestFile(GlobalNodeModulesPath, packageName)
    ELSE IF projectName = LOCAL_NAME
    THEN ManifestFile(<<NODE_MODULES>>, packageName)
    ELSE LET hits == {i \in DOMAIN monitoredProjects :
                        Basename(Segments(monitoredProjects[i])) = projectName}
         IN  IF hits = {} THEN NoPath
             ELSE ManifestFile(
                    Segments(monitoredProjects[CHOOSE i \in hits : \A j \in hits : i <= j])
                        \o <<NODE_MODULES>>, packageName)

\* what is recorded of an install for the claims: the dependency directory its
\* entry appeared in, the time since the manifest that checkComplete looks for
\* was written (-2: it was there at detection, -1: not there yet), and whether
\* a later detection of its key has been ignored
Observation(w, projectName, packageName) ==
    [dir |-> WatchedDir(w), packageName |-> packageName,
     ms |-> IF PackagePath(projectName, packageName) \in files THEN -2 ELSE -1,
     ignored |-> FALSE]

\* if (this.activeInstalls.has(key)) return
AlreadyActive_Never(key) == FALSE

AlreadyActive(key) == key \in DOMAIN activeInstalls

\* trackInstallationWithProgress, with simulateInstallProgress and
\* checkInstallationCompleteWithProgress setting their timers; w is the watcher
\* whose callback made the call
\* a record that refers to the bar created after the one at hand
NewInstall_NextBar(projectName, chainInfo, progressBar, handle) ==
    [elapsed |-> 0, projectName |-> projectName, chainInfo |-> chainInfo,
     progressBar |-> progressBar + 1, progressInterval |-> handle]

\* the record of this.activeInstalls.set(key, {startTime: Date.now(),
\* projectName, chainInfo, progressBar}), with the handle that
\* simulateInstallProgress stores in it in the same turn
NewInstall(projectName, chainInfo, progressBar, handle) ==
    [elapsed |-> 0, projectName |-> projectName, chainInfo |-> chainInfo,
     progressBar |-> progressBar, progressInterval |-> handle]

Track(packageName, projectName, chainInfo, w) ==
    LET key == Key(projectName, packageName) IN
    IF AlreadyActive(key)
    THEN /\ observed' = [observed EXCEPT ![activeInstalls[key]].ignored = TRUE]
         /\ UNCHANGED <<installs, activeInstalls, progressBars, multibar, timers>>
    ELSE LET id == CHOOSE i \in 1..(MaxLive + 1) :
                        /\ i \notin (DOMAIN installs) \cup (DOMAIN multibar)
                        /\ \A j \in 1..(i - 1) : j \in (DOMAIN installs) \cup (DOMAIN multibar)
         IN  /\ multibar' = With(multibar, id,
                                 Bar(Rat(0, 1), packageName, getStatusText(chainInfo), Calculating))
             /\ progressBars' = With(progressBars, key, id)
             /\ installs' = With(installs, id, NewInstall(projectName, chainInfo, id, id))
             /\ activeInstalls' = With(activeInstalls, key, id)
             /\ timers' = timers \cup {Timer("tick", TickMs, id, key, packageName, projectName),
                                       Timer("poll", FirstPollMs, id, key, packageName, projectName)}
             /\ observed' = With([i \in (DOMAIN observed) \cap Referenced(activeInstalls, {})
                                    |-> observed[i]],
                                 id, Observation(w, projectName, packageName))

\* room for one more callback within the bound
Room == BagSize(inFlight) + Cardinality((DOMAIN installs) \cup (DOMAIN multibar)) < MaxLive

\* watcher.on('addDir', ...): a new entry in a watched dependency directory
AddDir(w, name) ==
    /\ w \in Watchers
    /\ Room
    /\ IF StartsWith(name, DOT)
       THEN UNCHANGED tvars
       ELSE IF w.kind = "global"
       THEN /\ Track(name, GLOBAL_NAME,
                     ChainInfo("user-requested", NULL, <<"Global installation", NULL>>), w)
            /\ UNCHANGED <<isUniversal, monitoredProjects, files, inFlight>>
       ELSE /\ inFlight' = BagAdd(inFlight, [watcher |-> w, packageName |-> name])
            /\ UNCHANGED <<isUniversal, monitoredProjects, files, installs, activeInstalls,
                           progressBars, multibar, timers, observed>>
    /\ UNCHANGED <<rvars, dvars, cvars, evars>>

\* a suspended callback resumes: analyzeDependencyChain has returned
Resume(e) ==
    /\ e \in DOMAIN inFlight
    /\ inFlight' = BagRemove(inFlight, e)
    /\ Track(e.packageName, ProjectNameOf(e.watcher),
             analyzeDependencyChain(e.packageName, TrackerManifest, TrackerLock), e.watcher)
    /\ UNCHANGED <<isUniversal, monitoredProjects, files, rvars, dvars, cvars, evars>>

\* the environment writes <dir>/<name>/package.json
CreateManifest(dir, name) ==
    /\ ManifestFile(dir, name) \notin files
    /\ files' = files \cup {ManifestFile(dir, name)}
    /\ observed' = [i \in DOMAIN observed |->
                        IF /\ observed[i].ms = -1
                           /\ PackagePath(installs[i].projectName, observed[i].packageName)
                                = ManifestFile(dir, name)
                        THEN [observed[i] EXCEPT !.ms = 0]
                        ELSE observed[i]]
    /\ UNCHANGED <<isUniversal, monitoredProjects, inFlight, installs, activeInstalls,
                   progressBars, multibar, timers, rvars, dvars, cvars, evars>>

\* the setInterval callback of simulateInstallProgress
Tick(t) ==
    /\ t \in timers /\ t.kind = "tick" /\ t.left = 0
    /\ IF t.key \notin DOMAIN activeInstalls
       THEN /\ timers' = timers \ {t}
            /\ installs' = Collect(installs, activeInstalls, timers')
            /\ UNCHANGED multibar
       ELSE LET install == installs[t.inst]
                elapsed == install.elapsed
                estimatedDuration == estimateInstallDuration(t.packageName)
                progress == Progress(elapsed, estimatedDuration)
            IN  /\ multibar' =
                     IF install.progressBar \in DOMAIN multibar
                     THEN With(multibar, install.progressBar,
                               Bar(progress, t.packageName, getStatusText(install.chainInfo),
                                   formatETA(estimatedDuration - elapsed)))
                     ELSE multibar
                /\ timers' = (timers \ {t}) \cup {[t EXCEPT !.left = TickMs]}
                /\ UNCHANGED installs
    /\ UNCHANGED <<isUniversal, monitoredProjects, files, inFlight, activeInstalls,
                   progressBars, observed, rvars, dvars, cvars, evars>>

\* clearInterval(install.progressInterval)
ClearInterval_Noop(tms, handle) == tms

\* clearInterval given the handle of another interval
ClearInterval_OtherHandle(tms, handle) ==
    tms \ {x \in tms : x.kind = "tick" /\ x.inst = handle + 1}

ClearInterval(tms, handle) == tms \ {x \in tms : x.kind = "tick" /\ x.inst = handle}

\* packagePath && fs.existsSync(packagePath)

ExistsSync(packagePath) == packagePath # NoPath /\ packagePath \in files

\* checkComplete
Poll(t) ==
    /\ t \in timers /\ t.kind = "poll" /\ t.left = 0
    /\ IF t.key \notin DOMAIN activeInstalls
       THEN /\ timers' = timers \ {t}
            /\ installs' = Collect(installs, activeInstalls, timers')
            /\ UNCHANGED <<activeInstalls, progressBars, multibar, observed>>
       ELSE LET packagePath == PackagePath(t.projectName, t.packageName)
                id == activeInstalls[t.key]
                install == installs[id]
            IN  IF ExistsSync(packagePath)
                THEN /\ multibar' =
                          IF install.progressBar \in DOMAIN multibar
                          THEN With(multibar, install.progressBar,
                                    Bar(Rat(BarTotal, 1), t.packageName, Complete, formatETA(0)))
                          ELSE multibar
                     /\ timers' =
                          ClearInterval(timers \ {t}, install.progressInterval)
                          \cup {Timer("linger", LingerMs, id, t.key, t.packageName, t.projectName)}
                     /\ activeInstalls' = Without(activeInstalls, t.key)
                     /\ progressBars' = Without(progressBars, t.key)
                     \* startTime is not read again
                     /\ installs' = Collect([installs EXCEPT ![id].elapsed = 0],
                                            activeInstalls', timers')
                     /\ observed' = Without(observed, id)
                ELSE /\ timers' = (timers \ {t}) \cup {[t EXCEPT !.left = PollMs]}
                     /\ UNCHANGED <<installs, activeInstalls, progressBars, multibar, observed>>
    /\ UNCHANGED <<isUniversal, monitoredProjects, files, inFlight, rvars, dvars, cvars, evars>>

\* the setTimeout callback that retires the bar
Linger(t) ==
    /\ t \in timers /\ t.kind = "linger" /\ t.left = 0
    /\ multibar' = Without(multibar, installs[t.inst].progressBar)
    /\ timers' = timers \ {t}
    /\ installs' = Collect(installs, activeInstalls, timers')
    /\ UNCHANGED <<isUniversal, monitoredProjects, files, inFlight, activeInstalls,
                   progressBars, observed, rvars, dvars, cvars, evars>>

\* time passes, up to the next timer
Advance ==
    /\ timers # {}
    /\ \A t \in timers : t.left > 0
    /\ LET next == CHOOSE m \in {t.left : t \in timers} : \A t \in timers : m <= t.left
           d == Min(TimeStep, next)
           active == {activeInstalls[k] : k \in DOMAIN activeInstalls}
       IN  /\ \A i \in active : installs[i].elapsed + d <= MaxElapsed
           /\ timers' = {[t EXCEPT !.left = @ - d] : t \in timers}
           /\ installs' = [i \in DOMAIN installs |->
                             IF i \in active
                             THEN [installs[i] EXCEPT !.elapsed = @ + d]
                             ELSE installs[i]]
           /\ observed' = [i \in DOMAIN observed |->
                             IF observed[i].ms >= 0
                             THEN [observed[i] EXCEPT !.ms = Min(WaitCap, @ + d)]
                             ELSE observed[i]]
    /\ UNCHANGED <<isUniversal, monitoredProjects, files, inFlight, activeInstalls,
                   progressBars, multibar, rvars, dvars, cvars, evars>>

ResolverIdle ==
    /\ rManifest = TrackerManifest
    /\ rLock = TrackerLock
    /\ rPackage = PkgMs
    /\ rResult = Pending
    /\ rTracked = FALSE

Init ==
    /\ ResolverIdle
    /\ DiscoverIdle
    /\ ChainsIdle
    /\ EstimateIdle
    /\ isUniversal \in BOOLEAN
    /\ monitoredProjects = IF isUniversal THEN UniversalProjects ELSE <<>>
    /\ files = {}
    /\ inFlight = <<>>
    /\ installs = <<>>
    /\ activeInstalls = <<>>
    /\ progressBars = <<>>
    /\ multibar = <<>>
    /\ timers = {}
    /\ observed = <<>>

Next ==
    \/ \E w \in Watchers : \E name \in EntryNames(w) : AddDir(w, name)
    \/ \E e \in DOMAIN inFlight : Resume(e)
    \/ \E w \in Watchers : \E name \in EntryNames(w) \ {PkgHidden} :
            CreateManifest(WatchedDir(w), name)
    \/ \E t \in timers : Tick(t)
    \/ \E t \in timers : Poll(t)
    \/ \E t \in timers : Linger(t)
    \/ Advance

Spec == Init /\ [][Next]_vars

\* SpecLive: the tracker with its timers run fairly, for what is to happen
\* eventually.  Time goes from one due timer to the next; Date.now() has no
\* bound, so the time since startTime stops being counted at LiveElapsed while
\* the timers go on, and the time since a manifest was written is not kept.
LiveElapsed == 400

AdvanceLive ==
    /\ timers # {}
    /\ \A t \in timers : t.left > 0
    /\ LET d == CHOOSE m \in {t.left : t \in timers} : \A t \in timers : m <= t.left
           active == {activeInstalls[k] : k \in DOMAIN activeInstalls}
       IN  /\ timers' = {[t EXCEPT !.left = @ - d] : t \in timers}
           /\ installs' = [i \in DOMAIN installs |->
                             IF i \in active
                             THEN [installs[i] EXCEPT !.elapsed = Min(LiveElapsed, @ + d)]
                             ELSE installs[i]]
    /\ UNCHANGED <<isUniversal, monitoredProjects, files, inFlight, activeInstalls,
                   progressBars, multibar, observed, rvars, dvars, cvars, evars>>

NextLive ==
    \/ \E w \in Watchers : \E name \in EntryNames(w) : AddDir(w, name)
    \/ \E e \in DOMAIN inFlight : Resume(e)
    \/ \E w \in Watchers : \E name \in EntryNames(w) \ {PkgHidden} :
            CreateManifest(WatchedDir(w), name)
    \/ \E t \in timers : Tick(t)
    \/ \E t \in timers : Poll(t)
    \/ \E t \in timers : Linger(t)
    \/ AdvanceLive

\* the event loop runs every timer that is due, and time goes on
Fairness ==
    /\ WF_vars(\E t \in timers : Tick(t))
    /\ WF_vars(\E t \in timers : Poll(t))
    /\ WF_vars(\E t \in timers : Linger(t))
    /\ WF_vars(AdvanceLive)

SpecLive == Init /\ [][NextLive]_vars /\ Fairness

\* SpecReserved: the tracker of a universal run whose one project is a
\* directory named like the identity of the global store
ProjectGlobal == Native("linux", <<<<"w">>, GLOBAL_NAME>>)

InitReserved ==
    /\ ResolverIdle
    /\ DiscoverIdle
    /\ ChainsIdle
    /\ EstimateIdle
    /\ isUniversal = TRUE
    /\ monitoredProjects = <<ProjectGlobal>>
    /\ files = {}
    /\ inFlight = <<>>
    /\ installs = <<>>
    /\ activeInstalls = <<>>
    /\ progressBars = <<>>
    /\ multibar = <<>>
    /\ timers = {}
    /\ observed = <<>>

SpecReserved == InitReserved /\ [][NextLive]_vars

-----------------------------------------------------------------------------
(* SpecDiscover: the controller of a universal run (statusCommand,          *)
(* startUniversalMonitoring, startQuickUniversalMonitoring), the discovery  *)
(* scan (fastFindAndMonitorProjects) and the watch registry                 *)
(* (watchProjectDirectoryWithProgress), on a fixed file system.             *)
(*                                                                          *)
(* An action is one run of the event loop to the next await that waits for  *)
(* the file system: the continuations that follow a resolved promise run    *)
(* within it.                                                               *)

\* bound of the model: the scans a run starts
MaxScans == 2

\* const batchSize = 5
batchSize == 5

\* maxDepth: 3, the depth the options object asks for
maxDepth == 3

HOME == <<"h", "o", "m", "e">>

DOCUMENTS == <<"D", "o", "c", "u", "m", "e", "n", "t", "s">>

DESKTOP == <<"D", "e", "s", "k", "t", "o", "p">>

PROJECTS == <<"P", "r", "o", "j", "e", "c", "t", "s">>

DEVELOPMENT == <<"D", "e", "v", "e", "l", "o", "p", "m", "e", "n", "t">>

DEV == <<"d", "e", "v">>

FOO == <<"f", "o", "o">>

BAR == <<"b", "a", "r">>

BAZ == <<"b", "a", "z">>

QUX == <<"q", "u", "x">>

PkgD == <<"d">>

GIT == <<".", "g", "i", "t">>

\* the directories that hold a package.json: a project with an installed
\* package, a project five directories deep, one in a VCS directory, and
\* three more projects under another root
DirFoo == <<HOME, DOCUMENTS, FOO>>

DirMs == DirFoo \o <<NODE_MODULES, PkgMs>>

DirDeep == <<HOME, DOCUMENTS, PkgA, PkgB, PkgC, PkgD, FOO>>

DirGit == <<HOME, DOCUMENTS, GIT, FOO>>

DirBar == <<HOME, DEV, BAR>>

DirBaz == <<HOME, DEV, BAZ>>

DirQux == <<HOME, DEV, QUX>>

\* in the order a listing of the file system gives them
ManifestDirs == <<DirFoo, DirMs, DirDeep, DirGit, DirBar, DirBaz, DirQux>>

HasManifest(dir) == \E i \in DOMAIN ManifestDirs : ManifestDirs[i] = dir

\* the directories that exist: those above, and all they lie in
IsPrefix(a, b) == Len(a) <= Len(b) /\ SubSeq(b, 1, Len(a)) = a

DirExists(dir) == \E i \in DOMAIN ManifestDirs : IsPrefix(dir, ManifestDirs[i])

\* the directories a run may be started in: a project, an installed package,
\* and a directory without manifest
WorkingDirs == {DirFoo, DirMs, <<HOME, DEV>>}

\* a dependency directory and a manifest that chokidar cannot watch
HardToWatch == {DirFoo \o <<NODE_MODULES>>, DirBaz \o <<PACKAGE_JSON>>}

\* safePaths
safePaths(pf, dir) ==
    <<Native(pf, <<HOME, DOCUMENTS>>), Native(pf, <<HOME, DESKTOP>>),
      Native(pf, <<HOME, PROJECTS>>), Native(pf, <<HOME, DEVELOPMENT>>),
      Native(pf, <<HOME, DEV>>), Native(pf, dir)>>

\* the ignore list of the glob call, each pattern **/<name>/**
IgnoredNames ==
    {NODE_MODULES,
     <<".", "g", "i", "t">>,
     <<"d", "i", "s", "t">>,
     <<"b", "u", "i", "l", "d">>,
     <<"c", "o", "v", "e", "r", "a", "g", "e">>,
     <<".", "c", "a", "c", "h", "e">>,
     <<"t", "m", "p">>,
     <<"t", "e", "m", "p">>,
     <<"A", "p", "p", "D", "a", "t", "a">>,
     <<"A", "p", "p", "l", "i", "c", "a", "t", "i", "o", "n", " ", "D", "a", "t", "a">>,
     <<"P", "r", "o", "g", "r", "a", "m", "D", "a", "t", "a">>,
     <<"S", "y", "s", "t", "e", "m", " ", "V", "o", "l", "u", "m", "e", " ", "I", "n", "f", "o", "r", "m", "a", "t", "i", "o", "n">>,
     <<"$", "R", "E", "C", "Y", "C", "L", "E", ".", "B", "I", "N">>,
     <<"W", "i", "n", "d", "o", "w", "s">>,
     <<"P", "r", "o", "g", "r", "a", "m", " ", "F", "i", "l", "e", "s">>,
     <<"P", "r", "o", "g", "r", "a", "m", " ", "F", "i", "l", "e", "s", " ", "(", "x", "8", "6", ")">>,
     <<"v", "e", "n", "d", "o", "r">>,
     <<"v", "e", "n", "v">>,
     <<"e", "n", "v">>,
     <<".", "v", "e", "n", "v">>}

\* path.dirname
Dirname(pathString) ==
    [pathString EXCEPT !.segs = SubSeq(pathString.segs, 1, Len(pathString.segs) - 1)]

\* fast-glob's answer with absolute: true: the entry made absolute on the
\* scanned root, with forward slashes on every platform
Unixify(pathString) == [pathString EXCEPT !.sep = SLASH]

MakeAbsolute(root, rel) == [sep |-> root.sep, segs |-> root.segs \o rel]

\* a pattern **/<name>/** matches a path that has <name> among its directories
Ignored(dirs) == \E k \in DOMAIN dirs : dirs[k] \in IgnoredNames

\* **/package.json with dot left at false does not enter a directory whose
\* name starts with a dot
Dotted(dirs) == \E k \in DOMAIN dirs : StartsWith(dirs[k], DOT)

\* glob('**/package.json', {cwd: searchPath, ignore, absolute: true, ...}):
\* the manifests under the root whose path from the root is neither dotted nor
\* ignored.  fast-glob bounds the depth by its option deep; the options object
\* sets maxDepth, which fast-glob does not read, so that no depth is applied.
Matched(root, dir, onAbsolute) ==
    /\ IsPrefix(Segments(root), dir)
    /\ LET rel == SubSeq(dir, Len(Segments(root)) + 1, Len(dir))
       IN  /\ ~Dotted(rel)
           /\ ~Ignored(rel)
           /\ onAbsolute => ~Ignored(dir)

RECURSIVE GlobFrom(_, _, _)
GlobFrom(root, i, onAbsolute) ==
    IF i > Len(ManifestDirs) THEN <<>>
    ELSE (IF Matched(root, ManifestDirs[i], onAbsolute)
          THEN <<Unixify(MakeAbsolute(root, SubSeq(ManifestDirs[i], Len(Segments(root)) + 1,
                                                   Len(ManifestDirs[i])) \o <<PACKAGE_JSON>>))>>
          ELSE <<>>) \o GlobFrom(root, i + 1, onAbsolute)

Glob(root, onAbsolute) == GlobFrom(root, 1, onAbsolute)

\* scanResults...flatMap(result => result.value)
RECURSIVE FlatMap(_, _)
FlatMap(roots, onAbsolute) ==
    IF roots = <<>> THEN <<>>
    ELSE Glob(Head(roots), onAbsolute) \o FlatMap(Tail(roots), onAbsolute)

\* validPaths: the roots that exist and were read within the second
RECURSIVE ValidPaths(_, _, _)
ValidPaths(paths, i, slow) ==
    IF i > Len(paths) THEN <<>>
    ELSE (IF DirExists(Segments(paths[i])) /\ i # slow THEN <<paths[i]>> ELSE <<>>)
            \o ValidPaths(paths, i + 1, slow)

\* this.monitoredProjects.has(projectPath)
\* a set that never answers yes
Has_Never(projects, pathString) == FALSE

Has(projects, pathString) == \E i \in DOMAIN projects : projects[i] = pathString

\* the synchronous part of watchProjectDirectoryWithProgress(projectPath): the
\* watcher on node_modules if that directory exists, up to
\* await fs.pathExists(packageJsonPath)
WatchDependencies(watchers, pathString) ==
    IF DirExists(Segments(pathString) \o <<NODE_MODULES>>)
    THEN BagAdd(watchers, pathString)
    ELSE watchers

\* chokidar.watch(target) throws
Throws(target) == target \in unwatchable

\* the call of chokidar.watch on <project>/node_modules throws, and the catch
\* of watchProjectDirectoryWithProgress ends the call: no watcher at all
DependencyWatchThrows(pathString) ==
    /\ DirExists(Segments(pathString) \o <<NODE_MODULES>>)
    /\ Throws(Segments(pathString) \o <<NODE_MODULES>>)

\* one batch callback: if (!this.monitoredProjects.has(projectPath)) { add; await watch }
RegisterOne(st, packageJsonPath) ==
    LET projectPath == Dirname(packageJsonPath)
    IN  IF Has(st.projects, projectPath) THEN st
        ELSE IF DependencyWatchThrows(projectPath)
        THEN [st EXCEPT !.projects = Append(st.projects, projectPath)]
        ELSE [st EXCEPT !.projects = Append(st.projects, projectPath),
                        !.watchers = WatchDependencies(st.watchers, projectPath),
                        !.started = st.started \cup {projectPath}]

\* batch.map(async ...): the callbacks of a batch, each up to its await
RECURSIVE RegisterBatch(_, _, _, _)
RegisterBatch(st, found, i, last) ==
    IF i > last THEN st
    ELSE RegisterBatch(RegisterOne(st, found[i]), found, i + 1, last)

\* the batch loop from index i: a batch none of whose callbacks awaits
\* settles at once and the loop goes on to the next
RECURSIVE RunBatches(_, _, _)
RunBatches(st, found, i) ==
    IF i > Len(found) THEN [st EXCEPT !.next = i]
    ELSE LET last == Min(i + batchSize - 1, Len(found))
             after == RegisterBatch(st, found, i, last)
         IN  IF after.started = {} THEN RunBatches(after, found, last + 1)
             ELSE [after EXCEPT !.next = last + 1]

\* a call of fastFindAndMonitorProjects: where it stands, the probes that
\* have not settled, the root whose probe timed out (0: none), the roots whose
\* probe returned the path, validPaths once all probes have settled, the globs
\* that have not settled, and allPackageJsonFiles with the batch loop's index
Scan(stage, probing, slow, valid, roots, globbing, found, next) ==
    [stage |-> stage, probing |-> probing, slow |-> slow, valid |-> valid,
     roots |-> roots, globbing |-> globbing, found |-> found, next |-> next]

\* the start of fastFindAndMonitorProjects, up to the await of the probes.
\* The probes of the candidates that do not exist return null after one call
\* of fs.pathExists and are taken to have settled before the others; the
\* current directory exists, so that some probe is always left.
NewScan ==
    Scan("probe",
         {k \in DOMAIN safePaths(platform, cwd) :
                DirExists(Segments(safePaths(platform, cwd)[k]))},
         0, {}, <<>>, {}, <<>>, 1)

\* watchGlobalNodeModules(), called when the controller has come to the end of
\* startUniversalMonitoring or startQuickUniversalMonitoring (the global store
\* exists): a watcher with an 'addDir' listener only
\* the global store watched from the bootstrap on
GlobalWatch_FromBootstrap ==
    bareWatchers' = IF isUniversal /\ phase' \in {"initialScan", "running"}
                    THEN bareWatchers \cup {"global"}
                    ELSE bareWatchers

GlobalWatch ==
    bareWatchers' = IF isUniversal /\ phase' = "running"
                    THEN bareWatchers \cup {"global"}
                    ELSE bareWatchers

\* setInterval(..., 2000) of monitorProcesses
MonitorMs == 2000

\* setTimeout(..., 2000) of startQuickUniversalMonitoring
DeferMs_Zero == 2000 - 2000

DeferMs == 2000

\* setInterval(..., 180000) of startQuickUniversalMonitoring
QuickRescanMs == 180000

\* setInterval(..., 120000) of startUniversalMonitoring
RescanMs == 120000

\* a pending callback of the controller: what it is for, the time left, and
\* the period of an interval (0 for a timeout)
BgTimer(kind, ms, every) == [kind |-> kind, left |-> ms, every |-> every]

\* every callback taken for a scan
Calls_AllScan(kind) == "fastFindAndMonitorProjects"

\* what the callback of a timer calls
Calls(kind) ==
    IF kind \in {"discover", "rescan"} THEN "fastFindAndMonitorProjects" ELSE "exec"

\* the timers the controller sets at the end of its start-up: the process
\* monitor, and in a universal run the rescan interval, after the deferred
\* first scan in quick mode
StartedTimers(universal, quick) ==
    {BgTimer("processes", MonitorMs, MonitorMs)}
        \cup (IF universal /\ quick
              THEN {BgTimer("discover", DeferMs, 0),
                    BgTimer("rescan", QuickRescanMs, QuickRescanMs)}
              ELSE IF universal
              THEN {BgTimer("rescan", RescanMs, RescanMs)}
              ELSE {})

\* the controller of a universal run comes to the end of its start-up
ControllerTimers ==
    bgTimers' = IF phase # "running" /\ phase' = "running"
                THEN StartedTimers(isUniversal, isQuick)
                ELSE bgTimers

\* what follows the bootstrap: await this.fastFindAndMonitorProjects(), or in
\* quick mode the global watch and the two timers
AfterBootstrap ==
    IF isQuick
    THEN /\ phase' = "running"
         /\ scans' = scans
    ELSE /\ phase' = "initialScan"
         /\ scans' = Append(scans, NewScan)

\* statusCommand resumes from await fs.pathExists('package.json'): the
\* current directory is registered if it holds a manifest
Bootstrap ==
    /\ phase = "start"
    /\ isUniversal
    /\ IF HasManifest(cwd) /\ DependencyWatchThrows(Native(platform, cwd))
       THEN /\ monitoredProjects' = Append(monitoredProjects, Native(platform, cwd))
            /\ AfterBootstrap
            /\ UNCHANGED <<depWatchers, registering>>
       ELSE IF HasManifest(cwd)
       THEN /\ monitoredProjects' = Append(monitoredProjects, Native(platform, cwd))
            /\ depWatchers' = WatchDependencies(depWatchers, Native(platform, cwd))
            /\ registering' = registering \cup {[scan |-> 0, path |-> Native(platform, cwd)]}
            /\ phase' = "bootstrap"
            /\ scans' = scans
       ELSE /\ AfterBootstrap
            /\ UNCHANGED <<monitoredProjects, depWatchers, registering>>
    /\ GlobalWatch
    /\ ControllerTimers
    /\ UNCHANGED <<platform, cwd, isQuick, ignoreOnAbsolute, unwatchable, exit,
                   multibarStopped, manifestWatchers>>
    /\ UNCHANGED <<isUniversal, files, inFlight, installs, activeInstalls, progressBars,
                   multibar, timers, observed, rvars, cvars, evars>>

\* the batch loop of scan s goes on from where it stands; when it is through,
\* the scan returns, and the initial scan's return lets the controller set
\* the global watch and the rescan timer
Batches(s, pending, allScans) ==
    LET st == RunBatches([projects |-> monitoredProjects, watchers |-> depWatchers,
                          started |-> {}, next |-> allScans[s].next],
                         allScans[s].found, allScans[s].next)
        through == st.started = {}
    IN  /\ monitoredProjects' = st.projects
        /\ depWatchers' = st.watchers
        /\ registering' = pending \cup {[scan |-> s, path |-> p] : p \in st.started}
        /\ scans' = [allScans EXCEPT ![s].next = st.next,
                                     ![s].stage = IF through THEN "done" ELSE "batch"]
        /\ phase' = IF through /\ phase = "initialScan" THEN "running" ELSE phase

\* the timers that call fastFindAndMonitorProjects
ScanTimers == {t \in bgTimers : Calls(t.kind) = "fastFindAndMonitorProjects"}

\* the time left on scan timer t has gone by and its callback runs: a timeout
\* is gone, an interval is set to its period again, and the other scan timers
\* have that much less to wait.  (The interval of the process monitor runs
\* beside them; its callbacks are the steps MonitorProcesses.)
Fired(t) ==
    {IF u \in ScanTimers THEN [u EXCEPT !.left = @ - t.left] ELSE u : u \in bgTimers \ {t}}
        \cup (IF t.every > 0 THEN {[t EXCEPT !.left = t.every]} ELSE {})

\* the next scan timer of the running monitor comes due and calls
\* fastFindAndMonitorProjects, whether or not an earlier scan is still going
\* on (setTimeout 2000 and setInterval 180000 in quick mode, setInterval
\* 120000 otherwise)
Rescan(t) ==
    /\ phase = "running"
    /\ t \in ScanTimers
    /\ \A u \in ScanTimers : t.left <= u.left
    /\ Len(scans) < MaxScans
    /\ scans' = Append(scans, NewScan)
    /\ bgTimers' = Fired(t)
    /\ UNCHANGED <<platform, cwd, isQuick, ignoreOnAbsolute, unwatchable, exit,
                   multibarStopped, phase, registering,
                   depWatchers, manifestWatchers, bareWatchers>>
    /\ UNCHANGED <<tvars, rvars, cvars, evars>>

\* the probe of one existing root of scan s settles: with the path if the
\* directory was read within the second (at most one root of a scan is too
\* slow), with null otherwise.  Promise.allSettled waits for all the probes;
\* with the last of them the globs of the valid roots start, or the scan
\* returns if there is none.
ProbeSettled(s, k) ==
    /\ scans[s].stage = "probe"
    /\ k \in scans[s].probing
    /\ \E late \in BOOLEAN :
          /\ late => scans[s].slow = 0
          /\ LET ok == ~late
                 slow == IF late THEN k ELSE scans[s].slow
                 validPaths == ValidPaths(safePaths(platform, cwd), 1, slow)
                 last == scans[s].probing = {k}
             IN  /\ scans' = [scans EXCEPT
                        ![s].probing = @ \ {k},
                        ![s].slow = slow,
                        ![s].valid = IF ok THEN @ \cup {k} ELSE @,
                        ![s].roots = IF last THEN validPaths ELSE @,
                        ![s].globbing = IF last THEN DOMAIN validPaths ELSE @,
                        ![s].stage = IF ~last THEN "probe"
                                     ELSE IF validPaths = <<>> THEN "done" ELSE "glob"]
                 /\ phase' = IF last /\ validPaths = <<>> /\ phase = "initialScan"
                             THEN "running" ELSE phase
    /\ GlobalWatch
    /\ ControllerTimers
    /\ UNCHANGED <<platform, cwd, isQuick, ignoreOnAbsolute, unwatchable, exit,
                   multibarStopped, registering,
                   depWatchers, manifestWatchers>>
    /\ UNCHANGED <<tvars, rvars, cvars, evars>>

\* the glob of one valid root of scan s settles.  Promise.allSettled waits for
\* all the globs; with the last of them the results are concatenated and the
\* batch loop starts.
GlobSettled(s, j) ==
    /\ scans[s].stage = "glob"
    /\ j \in scans[s].globbing
    /\ IF scans[s].globbing = {j}
       THEN Batches(s, registering,
                    [scans EXCEPT ![s].globbing = {},
                                  ![s].found = FlatMap(scans[s].roots, ignoreOnAbsolute)])
       ELSE /\ scans' = [scans EXCEPT ![s].globbing = @ \ {j}]
            /\ UNCHANGED <<monitoredProjects, depWatchers, registering, phase>>
    /\ GlobalWatch
    /\ ControllerTimers
    /\ UNCHANGED <<platform, cwd, isQuick, ignoreOnAbsolute, unwatchable, exit,
                   multibarStopped, manifestWatchers>>
    /\ UNCHANGED <<isUniversal, files, inFlight, installs, activeInstalls, progressBars,
                   multibar, timers, observed, rvars, cvars, evars>>

\* a call of watchProjectDirectoryWithProgress resumes from
\* await fs.pathExists(packageJsonPath): the watcher on the manifest; then the
\* bootstrap goes on, or the batch once all its callbacks have settled
WatchManifest(r) ==
    /\ r \in registering
    /\ manifestWatchers' = IF /\ HasManifest(Segments(r.path))
                              /\ ~Throws(Segments(r.path) \o <<PACKAGE_JSON>>)
                           THEN BagAdd(manifestWatchers, r.path)
                           ELSE manifestWatchers
    /\ IF r.scan = 0
       THEN /\ AfterBootstrap
            /\ registering' = registering \ {r}
            /\ UNCHANGED <<monitoredProjects, depWatchers>>
       ELSE IF \E q \in registering \ {r} : q.scan = r.scan
       THEN /\ registering' = registering \ {r}
            /\ UNCHANGED <<monitoredProjects, depWatchers, scans, phase>>
       ELSE Batches(r.scan, registering \ {r}, scans)
    /\ GlobalWatch
    /\ ControllerTimers
    /\ UNCHANGED <<platform, cwd, isQuick, ignoreOnAbsolute, unwatchable, exit,
                   multibarStopped>>
    /\ UNCHANGED <<isUniversal, files, inFlight, installs, activeInstalls, progressBars,
                   multibar, timers, observed, rvars, cvars, evars>>

\* startLocalMonitoring resumes from await this.analyzeDependencyChains():
\* the watcher on 'package.json', the watcher on 'node_modules' if the current
\* directory has one, neither with an 'error' listener; statusCommand then
\* installs the SIGINT handler
LocalStart ==
    /\ phase = "start"
    /\ ~isUniversal
    /\ bareWatchers' = {"package.json"} \cup
                            IF DirExists(cwd \o <<NODE_MODULES>>)
                            THEN {"node_modules"} ELSE {}
    /\ phase' = "running"
    /\ bgTimers' = StartedTimers(FALSE, FALSE)
    /\ UNCHANGED <<platform, cwd, isQuick, ignoreOnAbsolute, unwatchable, exit,
                   multibarStopped, scans, registering, depWatchers,
                   manifestWatchers>>
    /\ UNCHANGED <<tvars, rvars, cvars, evars>>

\* the process ends: its timers, watchers and pending callbacks go with it
Exited(how, stopped) ==
    /\ phase' = "exited"
    /\ exit' = how
    /\ multibarStopped' = stopped
    /\ monitoredProjects' = <<>>
    /\ scans' = <<>>
    /\ registering' = {}
    /\ depWatchers' = <<>>
    /\ manifestWatchers' = <<>>
    /\ bareWatchers' = {}
    /\ bgTimers' = {}
    /\ UNCHANGED <<platform, cwd, isQuick, ignoreOnAbsolute, unwatchable>>
    /\ UNCHANGED <<isUniversal, files, inFlight, installs, activeInstalls, progressBars,
                   multibar, timers, observed, rvars, cvars, evars>>

\* SIGINT arrives.  The handler (multibar.stop(); process.exit(0)) is installed
\* by the last statement of statusCommand, after the await of the start-up;
\* before that the signal has its default disposition and kills the process.
Interrupt ==
    /\ phase \in {"start", "bootstrap", "initialScan", "running"}
    /\ IF phase = "running"
       THEN Exited("exit0", TRUE)
       ELSE Exited("signal", FALSE)

\* a watcher of a project emits 'error': its listener logs (the watcher on
\* node_modules) or does nothing (the watcher on package.json)
ProjectWatchError(p) ==
    /\ phase \in {"bootstrap", "initialScan", "running"}
    /\ p \in DOMAIN depWatchers \cup DOMAIN manifestWatchers
    /\ UNCHANGED vars

\* a watcher without an 'error' listener emits 'error': the EventEmitter
\* throws, and the uncaught exception ends the process
BareWatchError(b) ==
    /\ phase = "running"
    /\ b \in bareWatchers
    /\ Exited("uncaught", FALSE)

\* the interval of monitorProcesses comes due: its callback runs pgrep or
\* tasklist and does nothing with the answer, and the interval goes on
MonitorProcesses(t) ==
    /\ phase = "running"
    /\ t \in bgTimers
    /\ Calls(t.kind) = "exec"
    /\ UNCHANGED vars

\* the status command has been called and waits for fs.pathExists('package.json')
\* (universal run) or for analyzeDependencyChains (local run)
DiscoverInit ==
    /\ ResolverIdle
    /\ ChainsIdle
    /\ EstimateIdle
    /\ isUniversal \in BOOLEAN
    /\ monitoredProjects = <<>>
    /\ files = {}
    /\ inFlight = <<>>
    /\ installs = <<>>
    /\ activeInstalls = <<>>
    /\ progressBars = <<>>
    /\ multibar = <<>>
    /\ timers = {}
    /\ observed = <<>>
    /\ platform \in {"linux", "win32"}
    /\ cwd \in WorkingDirs
    /\ isQuick \in (IF isUniversal THEN BOOLEAN ELSE {FALSE})
    /\ ignoreOnAbsolute \in (IF isUniversal THEN BOOLEAN ELSE {FALSE})
    /\ phase = "start"
    /\ scans = <<>>
    /\ registering = {}
    /\ depWatchers = <<>>
    /\ manifestWatchers = <<>>
    /\ unwatchable \in (IF isUniversal THEN {{}, HardToWatch} ELSE {{}})
    /\ bareWatchers = {}
    /\ exit = "none"
    /\ multibarStopped = FALSE
    /\ bgTimers = {}

DiscoverNext ==
    \/ Bootstrap
    \/ LocalStart
    \/ \E t \in bgTimers : Rescan(t)
    \/ \E t \in bgTimers : MonitorProcesses(t)
    \/ \E s \in DOMAIN scans : \E k \in scans[s].probing : ProbeSettled(s, k)
    \/ \E s \in DOMAIN scans : \E j \in scans[s].globbing : GlobSettled(s, j)
    \/ \E r \in registering : WatchManifest(r)
    \/ Interrupt
    \/ \E p \in DOMAIN depWatchers \cup DOMAIN manifestWatchers : ProjectWatchError(p)
    \/ \E b \in bareWatchers : BareWatchError(b)

SpecDiscover == DiscoverInit /\ [][DiscoverNext]_vars

-----------------------------------------------------------------------------
(* SpecEstimate: the ticks of one installation estimate its duration *)

\* the number of ticks followed
MaxTicks == 3

\* package names: the fragments of the two lists, two names without any, and
\* one name joined to another by a hyphen
EstimateNames ==
    LET parts == LargePackages \cup MediumPackages \cup {PkgMs, PkgA}
    IN  parts \cup {p \o <<"-">> \o q : p, q \in parts}

EstimateInit ==
    /\ ResolverIdle
    /\ TrackerIdle
    /\ DiscoverIdle
    /\ ChainsIdle
    /\ ePackage \in EstimateNames
    /\ eEstimates = <<>>

\* a tick: const estimatedDuration = this.estimateInstallDuration(packageName)
EstimateTick ==
    /\ Len(eEstimates) < MaxTicks
    /\ eEstimates' = Append(eEstimates, estimateInstallDuration(ePackage))
    /\ UNCHANGED <<ePackage, rvars, tvars, dvars, cvars>>

SpecEstimate == EstimateInit /\ [][EstimateTick]_vars

-----------------------------------------------------------------------------
(* SpecChains: the manifests change under a running monitor *)

\* the number of 'change' callbacks that may be suspended at once
MaxHandling == 2

\* the directories whose package.json is edited: a project and a package
\* installed in it, each the current directory of some run
Editable == {DirFoo, DirMs}

\* what an editor may leave in a package.json
ChainManifests ==
    {BadManifest("malformed")}
    \cup {OkManifest(d, v) : d \in {EmptyMap, MapOf(PkgA, "^4.0.0")},
                             v \in {EmptyMap, MapOf(PkgB, "^4.0.0")}}

\* the value analyzeDependencyChains stores under a name
ChainEntry(version) ==
    [type |-> "user-requested", parent |-> NULL, version |-> version,
     reason |-> "Direct dependency in package.json"]

\* analyzeDependencyChains(): reads 'package.json', a path relative to the
\* current directory, and sets an entry for each name of dependencies and
\* devDependencies; a missing or unreadable file leaves the map as it is
AnalyzeDependencyChains(chains, all, dir) ==
    IF dir \notin DOMAIN all \/ all[dir].kind # "ok" THEN chains
    ELSE LET allDeps == Spread(all[dir].dependencies, all[dir].devDependencies)
         IN  [n \in (DOMAIN chains) \cup (DOMAIN allDeps) |->
                    IF n \in DOMAIN allDeps THEN ChainEntry(allDeps[n]) ELSE chains[n]]

\* the watchers on the package.json of directory dir: those of the project
\* registered under a path string of dir, and in local mode the watcher on
\* 'package.json' if dir is the current directory
ManifestWatchersOn(dir) ==
    BagSize([p \in {q \in DOMAIN manifestWatchers : Segments(q) = dir} |->
                    manifestWatchers[p]])
        + (IF dir = cwd /\ "package.json" \in bareWatchers THEN 1 ELSE 0)

\* the monitor of a universal run started in an installed package, once its
\* first scan has returned
ChainsUniversal ==
    /\ scans \in {<<Scan("done", {}, 0, NewScan.probing, roots, {}, found, Len(found) + 1)>> :
                        roots \in {ValidPaths(safePaths(platform, cwd), 1, 0)},
                        found \in {FlatMap(ValidPaths(safePaths(platform, cwd), 1, 0),
                                           ignoreOnAbsolute)}}
    /\ monitoredProjects =
            RegisterBatch([projects |-> <<Native(platform, cwd)>>, watchers |-> <<>>,
                           started |-> {}, next |-> 1],
                          scans[1].found, 1, Len(scans[1].found)).projects
    /\ depWatchers =
            RegisterBatch([projects |-> <<Native(platform, cwd)>>, watchers |-> <<>>,
                           started |-> {}, next |-> 1],
                          scans[1].found, 1, Len(scans[1].found)).watchers
    /\ manifestWatchers = [q \in {monitoredProjects[i] : i \in DOMAIN monitoredProjects} |-> 1]
    /\ bareWatchers = {"global"}
    /\ dependencyChains = <<>>

\* the monitor of a local run, startLocalMonitoring having analysed the
\* manifest of the current directory and set its two watchers
ChainsLocal ==
    /\ monitoredProjects = <<>>
    /\ depWatchers = <<>>
    /\ manifestWatchers = <<>>
    /\ scans = <<>>
    /\ bareWatchers = {"package.json"} \cup
                            IF DirExists(cwd \o <<NODE_MODULES>>)
                            THEN {"node_modules"} ELSE {}
    /\ dependencyChains = AnalyzeDependencyChains(<<>>, manifests, cwd)

ChainsInit ==
    /\ ResolverIdle
    /\ files = {}
    /\ inFlight = <<>>
    /\ installs = <<>>
    /\ activeInstalls = <<>>
    /\ progressBars = <<>>
    /\ multibar = <<>>
    /\ timers = {}
    /\ observed = <<>>
    /\ platform = "linux"
    /\ isQuick = FALSE
    /\ ignoreOnAbsolute = FALSE
    /\ unwatchable = {}
    /\ phase = "running"
    /\ registering = {}
    /\ exit = "none"
    /\ multibarStopped = FALSE
    /\ EstimateIdle
    /\ bgTimers \in {StartedTimers(u, FALSE) : u \in BOOLEAN}
    /\ isUniversal = (\E t \in bgTimers : t.kind = "rescan")
    /\ manifests \in [Editable -> {m \in ChainManifests : m.kind = "ok"}]
    /\ handling = <<>>
    /\ cwd \in (IF isUniversal THEN {DirMs} ELSE Editable)
    /\ IF isUniversal THEN ChainsUniversal ELSE ChainsLocal

\* package.json of dir is saved with another content: every watcher on it
\* emits 'change', and each callback logs and is suspended in
\* await this.analyzeDependencyChains()
EditManifest(dir, content) ==
    /\ content # manifests[dir]
    /\ Len(handling) + ManifestWatchersOn(dir) <= MaxHandling
    /\ manifests' = [manifests EXCEPT ![dir] = content]
    /\ handling' = handling \o [i \in 1..ManifestWatchersOn(dir) |-> dir]
    /\ UNCHANGED dependencyChains
    /\ UNCHANGED <<rvars, tvars, dvars, evars>>

\* a 'change' callback resumes: analyzeDependencyChains has read the file
Reanalyze(i) ==
    /\ dependencyChains' = AnalyzeDependencyChains(dependencyChains, manifests, cwd)
    /\ handling' = [j \in 1..(Len(handling) - 1) |->
                        IF j < i THEN handling[j] ELSE handling[j + 1]]
    /\ UNCHANGED manifests
    /\ UNCHANGED <<rvars, tvars, dvars, evars>>

ChainsNext ==
    \/ \E dir \in Editable : \E content \in ChainManifests : EditManifest(dir, content)
    \/ \E i \in DOMAIN handling : Reanalyze(i)

SpecChains == ChainsInit /\ [][ChainsNext]_vars

-----------------------------------------------------------------------------
(* What the resolver is to return, stated on the lock file's structure      *)
(* (positions in the tree, not the search that walks it)                    *)

\* positions in a nested tree: index paths of the depth and width of Trees
TreePaths == UNION {[1..n -> 1..2] : n \in 1..3}

RECURSIVE ValidPath(_, _)
ValidPath(tree, path) ==
    /\ path[1] <= Len(tree)
    /\ \/ Len(path) = 1
       \/ /\ tree[path[1]].info.kind = "object"
          /\ ValidPath(tree[path[1]].info.dependencies, Tail(path))

RECURSIVE EntryAt(_, _)
EntryAt(tree, path) ==
    IF Len(path) = 1 THEN tree[path[1]]
    ELSE EntryAt(tree[path[1]].info.dependencies, Tail(path))

\* p comes before q in a depth-first, entry-order walk
Before(p, q) ==
    /\ p # q
    /\ \/ Len(p) < Len(q) /\ SubSeq(q, 1, Len(p)) = p
       \/ \E i \in 1..Min(Len(p), Len(q)) :
            /\ SubSeq(p, 1, i - 1) = SubSeq(q, 1, i - 1)
            /\ p[i] < q[i]

FirstOf(paths) == CHOOSE p \in paths : \A q \in paths : q = p \/ Before(p, q)

\* the entries named pkg, and the null entries
MatchPaths(tree, pkg) ==
    {p \in TreePaths : ValidPath(tree, p) /\ EntryAt(tree, p).name = pkg}

NullPaths(tree) ==
    {p \in TreePaths : ValidPath(tree, p) /\ EntryAt(tree, p).info.kind = "null"}

\* the name of the entry that directly contains position p; null at the top level
ParentAt(tree, p) ==
    IF Len(p) = 1 THEN NULL ELSE EntryAt(tree, SubSeq(p, 1, Len(p) - 1)).name

Declared(manifest, pkg) ==
    /\ manifest.kind = "ok"
    /\ pkg \in (DOMAIN manifest.dependencies) \cup (DOMAIN manifest.devDependencies)

\* the flat-table keys that end in /node_modules/<pkg>, in table order
FlatSuffix(pkg) == SLASH \o NODE_MODULES \o SLASH \o pkg

FlatMatches(keys, pkg) == SelectSeq(keys, LAMBDA k : EndsWith(k, FlatSuffix(pkg)))

\* the path segment immediately before the suffix; null when nothing precedes it
SegmentBefore(key, pkg) ==
    OrElse(SplitPop(SubSeq(key, 1, Len(key) - Len(FlatSuffix(pkg))), "/"), NULL)

-----------------------------------------------------------------------------
(* Claims about the resolver, checked under SpecResolve *)

Resolved == rResult # Pending

Undeclared == rManifest.kind = "ok" /\ ~Declared(rManifest, rPackage)

\* C4: every package that is a key of the manifest's dependencies or
\* devDependencies map resolves to user-requested with parent null, whatever
\* its version string and whatever the lock file holds.
C4_DeclaredIsUserRequested ==
    (Resolved /\ Declared(rManifest, rPackage))
        => (rResult.type = "user-requested" /\ rResult.parent = NULL)

\* C5: for an undeclared package and a lock file in nested-tree form, the
\* result is Transitive and its parent is the entry that directly contains
\* the first occurrence of the package in a depth-first walk (null when that
\* occurrence is at the top level of the tree).
C5_NestedTreeParent ==
    (/\ Resolved /\ Undeclared
     /\ rLock.kind = "ok" /\ rLock.packages = <<>>
     /\ MatchPaths(rLock.dependencies, rPackage) # {}
     /\ \A n \in NullPaths(rLock.dependencies) :
            ~Before(n, FirstOf(MatchPaths(rLock.dependencies, rPackage))))
        => rResult = DependencyOf(ParentAt(rLock.dependencies,
                                           FirstOf(MatchPaths(rLock.dependencies, rPackage))))

\* C5's case: the package found two levels down, under c under a
C5_Witness ==
    /\ Resolved /\ Undeclared
    /\ rLock.kind = "ok" /\ rLock.packages = <<>>
    /\ NullPaths(rLock.dependencies) = {}
    /\ MatchPaths(rLock.dependencies, rPackage) # {}
    /\ Len(FirstOf(MatchPaths(rLock.dependencies, rPackage))) = 3
    /\ rLock.dependencies[1].name = PkgA
    /\ rResult.type = "dependency" /\ rResult.parent = PkgC

\* C6: for an undeclared package and a flat-table key ending in
\* /node_modules/<package>, the result is Transitive and its parent is the
\* path segment immediately before that suffix.
C6_FlatTableParent ==
    (/\ Resolved /\ Undeclared
     /\ rLock.kind = "ok"
     /\ FlatMatches(rLock.packages, rPackage) # <<>>)
        => /\ rResult.type = "dependency"
           /\ rResult.parent = SegmentBefore(Head(FlatMatches(rLock.packages, rPackage)), rPackage)

\* a null entry of the tree that the walk reads before it finds the package
NullEntryRead ==
    /\ rLock.kind = "ok"
    /\ FlatMatches(rLock.packages, rPackage) = <<>>
    /\ \E n \in NullPaths(rLock.dependencies) :
            /\ EntryAt(rLock.dependencies, n).name # rPackage
            /\ \A m \in MatchPaths(rLock.dependencies, rPackage) : ~Before(m, n)

\* C7: resolve never raises.  A manifest that is missing, malformed or null,
\* a lock file that is missing, malformed or null when it is read, and a null
\* entry met in the lock tree all end in Unknown with parent null, and the
\* watch callback goes on to the tracker.
C7_NeverRaises ==
    /\ rResult # Raised
    /\ Resolved =>
        /\ rManifest.kind # "ok" => (rResult.type = "unknown" /\ rResult.parent = NULL)
        /\ (Undeclared /\ rLock.kind \in {"missing", "malformed", "null"})
                => (rResult.type = "unknown" /\ rResult.parent = NULL)
        /\ (Undeclared /\ NullEntryRead)
                => (rResult.type = "unknown" /\ rResult.parent = NULL)
        /\ rTracked \/ ENABLED ResolveTrack

\* C7's case: a null entry was read, the call returned Unknown and the callback
\* reached the tracker
C7_Witness ==
    /\ Undeclared /\ NullEntryRead
    /\ MatchPaths(rLock.dependencies, rPackage) # {}
    /\ rResult = CouldNotAnalyze
    /\ rTracked

\* C21: for an undeclared package whose only lock entry is the top-level key
\* node_modules/<package> of the flat table, the result is Transitive with
\* parent null and the reason "Dependency of unknown package".
C21_TopLevelFlatKey ==
    (/\ Resolved /\ Undeclared
     /\ rLock.kind = "ok"
     /\ rLock.packages = <<FlatKey(<<rPackage>>)>>
     /\ rLock.dependencies = <<>>)
        => rResult = DependencyOf(NULL)

\* the lock file has no entry for the package: no key of the flat table is
\* or ends in node_modules/<package>, and no entry of the tree has its name
NoEntryFor(lock, pkg) ==
    /\ FlatMatches(lock.packages, pkg) = <<>>
    /\ \A i \in DOMAIN lock.packages : lock.packages[i] # FlatKey(<<pkg>>)
    /\ MatchPaths(lock.dependencies, pkg) = {}

\* C22: with a readable manifest that does not declare the package and a lock
\* file that is absent, or readable without an entry for the package, the
\* result is Unknown, parent null, "Installation source unknown"; "Could not
\* analyze dependency chain" is returned only when reading or parsing the
\* manifest or the lock file failed.
C22_UnknownReasons ==
    Resolved =>
        /\ (Undeclared /\ (rLock.kind = "missing"
                            \/ (rLock.kind = "ok" /\ NoEntryFor(rLock, rPackage))))
                => rResult = SourceUnknown
        /\ rResult = CouldNotAnalyze
                => \/ rManifest.kind \in {"missing", "malformed"}
                   \/ rLock.kind = "malformed"

\* C22 as the code has it: the lock file that gives "Installation source
\* unknown" has no null entry either, and "Could not analyze dependency chain"
\* is also the answer when the content of a file is null or the walk of the
\* tree meets a null entry
C22_UnknownReasonsByContent ==
    Resolved =>
        /\ (Undeclared /\ (rLock.kind = "missing"
                            \/ (/\ rLock.kind = "ok"
                                /\ NoEntryFor(rLock, rPackage)
                                /\ NullPaths(rLock.dependencies) = {})))
                => rResult = SourceUnknown
        /\ rResult = CouldNotAnalyze
                => \/ rManifest.kind \in {"missing", "malformed", "null"}
                   \/ rLock.kind \in {"malformed", "null"}
                   \/ NullEntryRead

\* C22's case: a lock file with entries, none of them the package's and none
\* null, gave "Installation source unknown"
C22_Witness ==
    /\ Resolved /\ Undeclared
    /\ rLock.kind = "ok"
    /\ rLock.dependencies # <<>>
    /\ NoEntryFor(rLock, rPackage)
    /\ NullPaths(rLock.dependencies) = {}
    /\ rResult = SourceUnknown

-----------------------------------------------------------------------------
(* Claims about the tracker, checked under Spec *)

ActiveIds == {activeInstalls[k] : k \in DOMAIN activeInstalls}

\* the installs of a key that are still being driven: they own a tick or a poll
Driven(key) ==
    {t.inst : t \in {x \in timers : x.key = key /\ x.kind \in {"tick", "poll"}}}

\* the bars of a key's installs that have not been completed
RunningBars(key) ==
    {b \in DOMAIN multibar :
        /\ multibar[b].status # Complete
        /\ \E t \in timers : t.key = key /\ t.inst = b /\ t.kind \in {"tick", "poll"}}

\* C1: at most one Installation record per composite key.  A detection of a
\* key that has an active record creates neither a second record nor a second
\* progress indicator: every key that is being driven is driven for exactly
\* one install object, the one the table holds, with exactly one running bar.
C1_OneInstallPerKey ==
    \A key \in {t.key : t \in timers} \cup DOMAIN activeInstalls :
        /\ Cardinality(Driven(key)) <= 1
        /\ Cardinality(RunningBars(key)) <= 1
        /\ key \in DOMAIN activeInstalls =>
            /\ Driven(key) = {activeInstalls[key]}
            /\ RunningBars(key) = {installs[activeInstalls[key]].progressBar}

\* C1's case: a detection of an active key has been ignored, and a second
\* callback for the same key is still suspended
C1_Witness ==
    \E key \in DOMAIN activeInstalls :
        /\ observed[activeInstalls[key]].ignored
        /\ \E e \in DOMAIN inFlight :
                Key(ProjectNameOf(e.watcher), e.packageName) = key
        /\ Cardinality(DOMAIN multibar) = 1

Lingering(b) == \E t \in timers : t.kind = "linger" /\ installs[t.inst].progressBar = b

\* C2: a bar shows at most 95 while its installation is active (the poll has
\* not seen the manifest), it shows 100 only once the poll has succeeded, and
\* from then until it is retired it keeps showing 100.
C2_ProgressBoundary ==
    /\ \A key \in DOMAIN activeInstalls :
            RatLeq(multibar[installs[activeInstalls[key]].progressBar].value, Rat(95, 1))
    /\ \A b \in DOMAIN multibar :
            ~RatLeq(multibar[b].value, Rat(95, 1))
                => (multibar[b].value = Rat(100, 1) /\ Lingering(b) /\ b \notin ActiveIds)
    /\ \A t \in timers :
            t.kind = "linger" => multibar[installs[t.inst].progressBar].value = Rat(100, 1)

\* C2's case: one bar held at the cap by the tick, another at 100 after its poll
\* succeeded
C2_Witness ==
    /\ \E key \in DOMAIN activeInstalls :
            /\ multibar[activeInstalls[key]].value = Rat(95, 1)
            /\ installs[activeInstalls[key]].elapsed >= 2000
    /\ \E b \in DOMAIN multibar : multibar[b].value = Rat(100, 1) /\ Lingering(b)

\* the tick of an install
TickOf(i) == CHOOSE t \in timers : t.kind = "tick" /\ t.inst = i

\* the time since detection at which an install's last tick ran (0 before the
\* first one)
LastTick(i) == installs[i].elapsed - (200 - TickOf(i).left)

\* C10: before completion the bar shows min(95, 100 * elapsed / estimated) for
\* the elapsed time of its last tick (0 before the first tick).
C10_ProgressFormula ==
    \A key \in DOMAIN activeInstalls :
        LET i == activeInstalls[key]
            v == multibar[installs[i].progressBar].value
            est == estimateInstallDuration(multibar[installs[i].progressBar].package)
        IN  IF 100 * LastTick(i) <= 95 * est
            THEN v.n * est = 100 * LastTick(i) * v.d
            ELSE v.n = 95 /\ v.d = 1

\* C10's case: estimated 2000 ms, the tick at 1000 ms, 50 shown
C10_Witness ==
    \E key \in DOMAIN activeInstalls :
        LET i == activeInstalls[key] IN
        /\ estimateInstallDuration(multibar[i].package) = 2000
        /\ installs[i].elapsed = 1000
        /\ TickOf(i).left = 200
        /\ multibar[i].value = Rat(50, 1)

\* the poll of a key
PollOf(key) == CHOOSE t \in timers : t.kind = "poll" /\ t.key = key

BarOf(key) == installs[activeInstalls[key]].progressBar

\* C12: for each key the events come in order.  A detection is accepted only
\* for a key without record and creates record and bar at 0; while the record
\* is there it is not replaced; a bar changes only as the bar of a key with a
\* record, to at most 95 while the record stays and to 100 in the step that
\* removes it (completion); after that step the bar changes no more.
C12_Step ==
    /\ \A key \in (DOMAIN activeInstalls') \ (DOMAIN activeInstalls) :
            /\ installs'[activeInstalls'[key]].progressBar \notin DOMAIN multibar
            /\ multibar'[installs'[activeInstalls'[key]].progressBar].value = Rat(0, 1)
    /\ \A key \in (DOMAIN activeInstalls') \cap (DOMAIN activeInstalls) :
            activeInstalls'[key] = activeInstalls[key]
    /\ \A b \in (DOMAIN multibar') \cap (DOMAIN multibar) :
            multibar'[b] # multibar[b] =>
                \E key \in DOMAIN activeInstalls :
                    /\ BarOf(key) = b
                    /\ IF key \in DOMAIN activeInstalls'
                       THEN RatLeq(multibar'[b].value, Rat(ProgressCap, 1))
                       ELSE multibar'[b].value = Rat(BarTotal, 1)
    /\ \A key \in (DOMAIN activeInstalls) \ (DOMAIN activeInstalls') :
            multibar'[BarOf(key)].value = Rat(BarTotal, 1)

C12_StrictOrder == [][C12_Step]_vars

\* C12's case: a key's installation has been completed (its bar lingers at
\* 100) and the key, detected again, is in its second installation, which has
\* had a percentage update
C12_Witness ==
    \E key \in DOMAIN activeInstalls :
        /\ ~RatLeq(multibar[BarOf(key)].value, Rat(0, 1))
        /\ \E t \in timers :
                /\ t.kind = "linger" /\ t.key = key
                /\ multibar[installs[t.inst].progressBar].value = Rat(BarTotal, 1)

\* C13: when the poll sees the manifest the bar goes to 100 and the tick
\* stops at once, and the record stays until the linger is over: while a bar
\* lingers its key still has its record (so that a detection is ignored).
C13_RecordKeptDuringLinger ==
    \A t \in timers :
        t.kind = "linger" =>
            /\ multibar[installs[t.inst].progressBar].value = Rat(BarTotal, 1)
            /\ ~\E x \in timers : x.kind = "tick" /\ x.inst = t.inst
            /\ t.key \in DOMAIN activeInstalls
            /\ activeInstalls[t.key] = t.inst

\* C15: a record is removed only by a poll that finds the manifest of the
\* package: in a step that removes a key's record, the package.json under the
\* dependency directory in which the entry appeared is there.
C15_Step ==
    \A key \in (DOMAIN activeInstalls) \ (DOMAIN activeInstalls') :
        LET o == observed[activeInstalls[key]]
        IN  ManifestFile(o.dir, o.packageName) \in files

C15_RemovedOnlyWhenInstalled == [][C15_Step]_vars

\* what does hold: a record is removed only in a step in which the file that
\* its poll looks for is there
RemovedOnlyWhenPollFileThere_Step ==
    \A key \in (DOMAIN activeInstalls) \ (DOMAIN activeInstalls') :
        LET i == activeInstalls[key]
        IN  PackagePath(installs[i].projectName, observed[i].packageName) \in files

RemovedOnlyWhenPollFileThere == [][RemovedOnlyWhenPollFileThere_Step]_vars

\* the keys the tracker can hold
AllKeys ==
    {Key(projectName, packageName) :
        projectName \in {LOCAL_NAME, GLOBAL_NAME, Basename(Segments(ProjectFooW))},
        packageName \in {PkgMs, PkgLodash}}

\* the package.json of the package a key's record is for, under the
\* dependency directory in which its entry appeared, is there
Installed(key) ==
    /\ key \in DOMAIN activeInstalls
    /\ LET o == observed[activeInstalls[key]]
       IN  ManifestFile(o.dir, o.packageName) \in files

\* the file that the poll of a key's record looks for is there
PollFileThere(key) ==
    /\ key \in DOMAIN activeInstalls
    /\ LET i == activeInstalls[key]
       IN  PackagePath(installs[i].projectName, observed[i].packageName) \in files

\* C23: the completion poll of an installation detected in a monitored
\* project looks for <that project>/node_modules/<package>/package.json,
\* also when two monitored projects have the same directory name.
C23_PollsOwnDirectory ==
    \A id \in DOMAIN observed :
        PackagePath(installs[id].projectName, observed[id].packageName)
            = ManifestFile(observed[id].dir, observed[id].packageName)

\* what does hold: the poll looks under the first monitored project that has
\* the directory name of the project of the detection
PollsFirstOfThatName ==
    \A id \in DOMAIN observed :
        isUniversal /\ installs[id].projectName # GLOBAL_NAME =>
            \E i \in DOMAIN monitoredProjects :
                /\ Basename(Segments(monitoredProjects[i])) = installs[id].projectName
                /\ \A j \in 1..(i - 1) :
                        Basename(Segments(monitoredProjects[j])) # installs[id].projectName
                /\ PackagePath(installs[id].projectName, observed[id].packageName)
                        = ManifestFile(Segments(monitoredProjects[i]) \o <<NODE_MODULES>>,
                                       observed[id].packageName)

\* an installation of the entry e.packageName that appeared under watcher w
\* is being tracked
TrackedFrom(w, packageName) ==
    \E id \in DOMAIN observed :
        observed[id].dir = WatchedDir(w) /\ observed[id].packageName = packageName

\* C24: the identity of the global store is that of installations detected
\* in the global store and of no other; every installation is polled at the
\* place where it was detected; and a detection is not dropped because of an
\* installation tracked from another directory.
C24_Step ==
    /\ \A w \in Watchers : \A name \in EntryNames(w) :
            (w.kind = "global" /\ AddDir(w, name) /\ ~StartsWith(name, DOT)
                    /\ ~TrackedFrom(w, name))
                => activeInstalls' # activeInstalls
    /\ \A e \in DOMAIN inFlight :
            (Resume(e) /\ ~TrackedFrom(e.watcher, e.packageName))
                => activeInstalls' # activeInstalls

C24_ReservedIdentity ==
    /\ [](\A id \in DOMAIN observed :
            /\ installs[id].projectName = GLOBAL_NAME
                    <=> observed[id].dir = GlobalNodeModulesPath
            /\ PackagePath(installs[id].projectName, observed[id].packageName)
                    = ManifestFile(observed[id].dir, observed[id].packageName))
    /\ [][C24_Step]_vars

\* the chain information with which the global watcher calls the tracker
GlobalInstallation == ChainInfo("user-requested", NULL, <<"Global installation", NULL>>)

\* the record that a step has created
NewRecords == {activeInstalls'[k] : k \in (DOMAIN activeInstalls') \ (DOMAIN activeInstalls)}

\* a new entry whose name starts with a dot leaves the tracker as it is
DotIgnored_Step ==
    \A w \in Watchers :
        AddDir(w, PkgHidden) =>
            UNCHANGED <<inFlight, installs, activeInstalls, progressBars, multibar, timers>>

\* the callback of a new entry is suspended in the resolver and has not
\* reached the tracker; when it resumes, the record it creates has the chain
\* information that the resolver returned
ResolverThenTracker_Step(ws) ==
    /\ \A w \in ws : \A name \in EntryNames(w) \ {PkgHidden} :
            AddDir(w, name) =>
                /\ inFlight' = BagAdd(inFlight, [watcher |-> w, packageName |-> name])
                /\ activeInstalls' = activeInstalls /\ multibar' = multibar
    /\ \A e \in DOMAIN inFlight :
            Resume(e) =>
                \A id \in NewRecords :
                    installs'[id].chainInfo =
                        analyzeDependencyChain(e.packageName, TrackerManifest, TrackerLock)

\* C27: a new entry whose name starts with a dot creates no record and no
\* bar, under every watcher; every other new entry, under every watcher, goes
\* to the resolver first and then to the tracker with what the resolver
\* returned.
C27_ResolverBeforeTracker ==
    [][DotIgnored_Step /\ ResolverThenTracker_Step(Watchers)]_vars

\* C27 as the code has it: the entries of the global store go to the tracker
\* at once, with the chain information of a global installation
C27_Step ==
    /\ DotIgnored_Step
    /\ ResolverThenTracker_Step({w \in Watchers : w.kind # "global"})
    /\ \A name \in EntryNames(GlobalWatcher) \ {PkgHidden} :
            (isUniversal /\ AddDir(GlobalWatcher, name)) =>
                /\ inFlight' = inFlight
                /\ \A id \in NewRecords : installs'[id].chainInfo = GlobalInstallation

C27_ResolverExceptGlobal == [][C27_Step]_vars

\* C27's case: an installation of the global store is tracked while the
\* callback of a project's entry is still in the resolver
C27_Witness ==
    /\ inFlight # <<>>
    /\ \E id \in ActiveIds :
            /\ installs[id].projectName = GLOBAL_NAME
            /\ installs[id].chainInfo = GlobalInstallation

\* the bars on display that belong to a key: that of its record and those
\* that linger after a completion
BarsOf(key) ==
    {b \in DOMAIN multibar :
        \/ key \in DOMAIN activeInstalls /\ BarOf(key) = b
        \/ \E t \in timers : t.kind = "linger" /\ t.key = key
                                /\ installs[t.inst].progressBar = b}

\* C29: the display holds at most one bar per key, lingering bars included.
C29_OneBarPerKey == \A key \in AllKeys : Cardinality(BarsOf(key)) <= 1

\* what does hold: at most one bar per key that has not been completed
OneRunningBarPerKey == \A key \in AllKeys : Cardinality(RunningBars(key)) <= 1

\* the pending callbacks of one kind that belong to a key
TimersOf(key, kind) == {t \in timers : t.key = key /\ t.kind = kind}

\* C30: a key with a record has exactly one tick timer and exactly one
\* pending poll, both of that record; a key without record has neither.
C30_OneTickOnePoll ==
    \A key \in AllKeys :
        IF key \in DOMAIN activeInstalls
        THEN /\ Cardinality(TimersOf(key, "tick")) = 1
             /\ Cardinality(TimersOf(key, "poll")) = 1
             /\ \A t \in TimersOf(key, "tick") \cup TimersOf(key, "poll") :
                    t.inst = activeInstalls[key]
        ELSE TimersOf(key, "tick") \cup TimersOf(key, "poll") = {}

\* C30's case: a key in its second installation while the bar of the first
\* lingers, the second having had a tick
C30_Witness ==
    \E key \in DOMAIN activeInstalls :
        /\ TimersOf(key, "linger") # {}
        /\ installs[activeInstalls[key]].elapsed > 0
        /\ Cardinality(TimersOf(key, "tick")) = 1

\* the name has a fragment of the list somewhere in it
HasFragment(name, list) ==
    \E f \in list : \E i \in 1..Len(name) :
        i + Len(f) - 1 <= Len(name) /\ SubSeq(name, i, i + Len(f) - 1) = f

\* C26: every tick of an installation estimates 8000 ms if the package name
\* has a fragment of the large list, otherwise 4000 ms if it has one of the
\* medium list, otherwise 2000 ms; the ticks of one installation agree.
C26_EstimateByFragment ==
    /\ \A i \in DOMAIN eEstimates :
            eEstimates[i] = IF HasFragment(ePackage, LargePackages) THEN 8000
                            ELSE IF HasFragment(ePackage, MediumPackages) THEN 4000
                            ELSE 2000
    /\ \A i, j \in DOMAIN eEstimates : eEstimates[i] = eEstimates[j]

\* C26's case: a name with a fragment of each list, the medium one first,
\* after several ticks
C26_Witness ==
    /\ HasFragment(ePackage, LargePackages)
    /\ HasFragment(ePackage, MediumPackages)
    /\ StartsWith(ePackage, PkgLodash)
    /\ Len(eEstimates) = MaxTicks
    /\ eEstimates[MaxTicks] = 8000

\* C33: the progress-indicator table and the active-installation table have
\* the same keys, and the bar stored under a key is the bar its installation
\* record refers to.
C33_TablesAgree ==
    /\ DOMAIN progressBars = DOMAIN activeInstalls
    /\ \A key \in DOMAIN activeInstalls :
            /\ activeInstalls[key] \in DOMAIN installs
            /\ progressBars[key] = installs[activeInstalls[key]].progressBar

\* C33's case: one installation is being tracked while another has been
\* completed and taken out of both tables, its bar still shown
C33_Witness ==
    /\ activeInstalls # <<>>
    /\ \E t \in timers : t.kind = "linger" /\ t.key \notin DOMAIN progressBars

\* C14: if the manifest of a tracked package is there (files are not removed),
\* the installation eventually completes: its record is removed, with its tick
\* and its poll, and a completed bar is eventually retired.
C14_EventuallyCompletes ==
    /\ \A key \in AllKeys :
            Installed(key) ~>
                (/\ key \notin DOMAIN activeInstalls
                 /\ ~\E t \in timers : t.key = key /\ t.kind \in {"tick", "poll"})
    /\ \A b \in 1 .. (MaxLive + 1) :
            (b \in DOMAIN multibar /\ multibar[b].status = Complete)
                ~> (b \notin DOMAIN multibar)

\* what does hold: an installation completes once the file its poll looks
\* for is there
CompletesOncePollFileThere ==
    /\ \A key \in AllKeys :
            PollFileThere(key) ~>
                (/\ key \notin DOMAIN activeInstalls
                 /\ ~\E t \in timers : t.key = key /\ t.kind \in {"tick", "poll"})
    /\ \A b \in 1 .. (MaxLive + 1) :
            (b \in DOMAIN multibar /\ multibar[b].status = Complete)
                ~> (b \notin DOMAIN multibar)

-----------------------------------------------------------------------------
(* The registry and the discovery, stated on the directories                *)

RECURSIVE SumOver(_, _)
SumOver(bag, keys) ==
    IF keys = {} THEN 0
    ELSE LET k == CHOOSE x \in keys : TRUE
         IN  bag[k] + SumOver(bag, keys \ {k})

\* the subscriptions a bag of watchers holds on a directory
SubscriptionsOn(bag, dir) == SumOver(bag, {p \in DOMAIN bag : Segments(p) = dir})

ProjectDirs == {ManifestDirs[i] : i \in DOMAIN ManifestDirs}

\* C3: after any sequence of bootstrap registration and discovery scans,
\* overlapping ones included, every project directory has at most one
\* dependency-directory subscription and at most one manifest subscription,
\* and is in the registry at most once.
C3_OneSubscriptionPerPath ==
    \A dir \in ProjectDirs :
        /\ SubscriptionsOn(depWatchers, dir) <= 1
        /\ SubscriptionsOn(manifestWatchers, dir) <= 1
        /\ Cardinality({i \in DOMAIN monitoredProjects :
                            Segments(monitoredProjects[i]) = dir}) <= 1

\* what the existence test before insertion does give: no path string is
\* registered or watched twice
OneSubscriptionPerString ==
    /\ \A p \in DOMAIN depWatchers : depWatchers[p] = 1
    /\ \A p \in DOMAIN manifestWatchers : manifestWatchers[p] = 1
    /\ \A i, j \in DOMAIN monitoredProjects :
            monitoredProjects[i] = monitoredProjects[j] => i = j

\* C9: discovery neither returns nor registers a project that is, or lies
\* inside, an excluded directory, and returns no manifest deeper than three
\* levels below a scanned root.
C9_NoExcludedNoDeep ==
    /\ \A i \in DOMAIN monitoredProjects : ~Ignored(Segments(monitoredProjects[i]))
    /\ \A s \in DOMAIN scans : \A j \in DOMAIN scans[s].found :
            LET dir == Segments(Dirname(scans[s].found[j]))
            IN  /\ ~Ignored(dir)
                /\ \E k \in DOMAIN scans[s].roots :
                        /\ IsPrefix(Segments(scans[s].roots[k]), dir)
                        /\ Len(dir) - Len(Segments(scans[s].roots[k])) <= maxDepth

\* C16: a root whose probe is slow or fails does not delay the others.  A
\* root whose probe has returned its path is being scanned, whatever the
\* other probes do; once a root's glob has settled the registration of what
\* was found has begun, whatever the other globs do; and the roots scanned
\* are those whose probe returned the path.
C16_NoWaitingForOtherRoots ==
    \A s \in DOMAIN scans :
        /\ scans[s].valid # {} => scans[s].stage # "probe"
        /\ scans[s].globbing # DOMAIN scans[s].roots => scans[s].stage # "glob"
        /\ scans[s].stage # "probe" => Len(scans[s].roots) = Cardinality(scans[s].valid)

\* C17: at every instant at most 5 watch registrations are in progress
\* (started and not yet settled), over all the scans of the run.
C17_AtMostFiveRegistering == Cardinality(registering) <= batchSize

\* what does hold: at most 5 registrations of one scan are in progress
AtMostFiveRegisteringPerScan ==
    \A s \in DOMAIN scans : Cardinality({r \in registering : r.scan = s}) <= batchSize

\* C18: once the registration of a project has settled, the project has a
\* watcher on its dependency directory and a watcher on its manifest, whether
\* or not the dependency directory existed when it was registered (chokidar
\* being able to watch both).
C18_RegisteredIsWatched ==
    \A i \in DOMAIN monitoredProjects :
        (/\ ~\E r \in registering : r.path = monitoredProjects[i]
         /\ ~Throws(Segments(monitoredProjects[i]) \o <<NODE_MODULES>>)
         /\ ~Throws(Segments(monitoredProjects[i]) \o <<PACKAGE_JSON>>)) =>
            /\ monitoredProjects[i] \in DOMAIN depWatchers
            /\ monitoredProjects[i] \in DOMAIN manifestWatchers

\* what does hold: the manifest is watched, and the dependency directory if
\* it existed at registration, unless chokidar could not watch them
RegisteredIsWatchedIfThere ==
    \A i \in DOMAIN monitoredProjects :
        LET dir == Segments(monitoredProjects[i])
        IN  (~\E r \in registering : r.path = monitoredProjects[i]) =>
                /\ (DirExists(dir \o <<NODE_MODULES>>) /\ ~Throws(dir \o <<NODE_MODULES>>))
                        <=> monitoredProjects[i] \in DOMAIN depWatchers
                /\ (~Throws(dir \o <<NODE_MODULES>>) /\ ~Throws(dir \o <<PACKAGE_JSON>>))
                        <=> monitoredProjects[i] \in DOMAIN manifestWatchers

\* C19: a watcher's 'error' event, or a throw while the watchers of one
\* project are set up, is swallowed.  No step ends the process with an
\* uncaught exception; as long as the process lives no subscription and no
\* active installation is lost; and a scan that has returned has registered
\* every project it found.
C19_Step ==
    /\ exit' # "uncaught"
    /\ exit' = "none" =>
            /\ \A p \in DOMAIN depWatchers :
                    p \in DOMAIN depWatchers' /\ depWatchers'[p] >= depWatchers[p]
            /\ \A p \in DOMAIN manifestWatchers :
                    p \in DOMAIN manifestWatchers' /\ manifestWatchers'[p] >= manifestWatchers[p]
            /\ bareWatchers \subseteq bareWatchers'
            /\ activeInstalls' = activeInstalls
            /\ \A s \in DOMAIN scans' :
                    scans'[s].stage = "done" =>
                        \A j \in DOMAIN scans'[s].found :
                            Has(monitoredProjects', Dirname(scans'[s].found[j]))

C19_ErrorsSwallowed == [][C19_Step]_vars

\* what does hold: the errors of the watchers of the projects, and the throws
\* while they are set up, are swallowed
ProjectErrorsSwallowed_Step ==
    (exit' = "uncaught" => \E b \in bareWatchers : BareWatchError(b)) /\
    (exit' = "none" => C19_Step)

ProjectErrorsSwallowed == [][ProjectErrorsSwallowed_Step]_vars

\* the bootstrap of a universal run is through: the current directory, if it
\* is a project, is registered, none of its registration is pending, its
\* watchers are set where there is something to watch and chokidar takes it,
\* and the global store is watched
BootstrapWatched ==
    /\ "global" \in bareWatchers
    /\ \A r \in registering : r.scan # 0
    /\ HasManifest(cwd) =>
          /\ Has(monitoredProjects, Native(platform, cwd))
          /\ (DirExists(cwd \o <<NODE_MODULES>>) /\ ~Throws(cwd \o <<NODE_MODULES>>))
                => /\ Native(platform, cwd) \in DOMAIN depWatchers
                   /\ Native(platform, cwd) \in DOMAIN manifestWatchers

\* a scan of a quick run starts from a timer: the first from the deferring
\* timeout, 2000 ms after the timers were set, and the timeout is then gone;
\* the later ones from the interval, which is set to its period again
C25_Step ==
    (isQuick /\ Len(scans') > Len(scans)) =>
        IF scans = <<>>
        THEN \E t \in bgTimers :
                /\ t.kind = "discover"
                /\ \A u \in bgTimers' : u.kind # "discover"
                /\ \E u \in bgTimers : /\ u.kind = "rescan"
                                        /\ [u EXCEPT !.left = @ - 2000] \in bgTimers'
        ELSE \E t \in bgTimers : /\ t.kind = "rescan"
                                  /\ \A u \in bgTimers : u.kind # "discover"
                                  /\ [t EXCEPT !.left = 180000] \in bgTimers'

LocalOnly ==
    /\ monitoredProjects = <<>>
    /\ depWatchers = <<>>
    /\ manifestWatchers = <<>>
    /\ scans = <<>>
    /\ registering = {}
    /\ bareWatchers \subseteq {"package.json", "node_modules"}

\* C28: a local run watches the current directory only, starts no scan and
\* does not watch the global store, and while it runs an interval is pending
\* whose callback derives the dependency chains again.
C28_LocalRederivesPeriodically ==
    ~isUniversal =>
        /\ LocalOnly
        /\ phase = "running" =>
                \E t \in bgTimers : t.every > 0 /\ Calls(t.kind) = "analyzeDependencyChains"

\* a local run watches the current directory only; its one interval is the
\* process monitor's, and the chains are derived again where package.json is
\* watched for changes
LocalRederivesOnChange ==
    ~isUniversal =>
        /\ LocalOnly
        /\ phase = "running" =>
                /\ "package.json" \in bareWatchers
                /\ bgTimers # {}
                /\ \A t \in bgTimers : t.every = 2000 /\ t.kind = "processes"

\* C28's case: a local run in a directory with dependencies, running
C28_Witness ==
    /\ ~isUniversal
    /\ phase = "running"
    /\ bareWatchers = {"package.json", "node_modules"}
    /\ \E t \in bgTimers : t.every = 2000

\* whether watcher w is set, so that its 'addDir' callback can run
CanDetect(w) ==
    IF w.kind = "global" THEN "global" \in bareWatchers
    ELSE \E p \in DOMAIN depWatchers : w = ProjectWatcher(p)

\* the first scan has returned, with every project it found registered and
\* no registration pending
InitialScanThrough ==
    /\ scans # <<>>
    /\ scans[1].stage = "done"
    /\ scans[1].next > Len(scans[1].found)
    /\ \A r \in registering : r.scan > 1

\* C32: in a universal run that is not quick, the global store is watched and
\* the timers are set only once the first scan has returned with all its
\* registrations settled; while the start-up goes on no installation in the
\* global store can be detected, and one in the bootstrap project can, where
\* that project has a dependency watcher.
C32_GlobalAfterInitialScan ==
    (isUniversal /\ ~isQuick) =>
        /\ ("global" \in bareWatchers \/ bgTimers # {}) => InitialScanThrough
        /\ phase \in {"start", "bootstrap", "initialScan"} =>
                /\ ~CanDetect(GlobalWatcher)
                /\ \A t \in bgTimers : Calls(t.kind) # "fastFindAndMonitorProjects"
        /\ phase = "initialScan" =>
                \A p \in DOMAIN depWatchers :
                    /\ CanDetect(ProjectWatcher(p))
                    /\ ENABLED AddDir(ProjectWatcher(p), PkgMs)
        /\ (phase = "initialScan" /\ HasManifest(cwd) /\ DirExists(cwd \o <<NODE_MODULES>>)
                /\ ~Throws(cwd \o <<NODE_MODULES>>))
                => CanDetect(ProjectWatcher(Native(platform, cwd)))

\* C32's case: the first scan is registering the projects it found, the
\* bootstrap project being watched already
C32_Witness ==
    /\ isUniversal /\ ~isQuick
    /\ phase = "initialScan"
    /\ scans[1].stage = "batch"
    /\ \E r \in registering : r.scan = 1
    /\ CanDetect(ProjectWatcher(Native(platform, cwd)))
    /\ ~CanDetect(GlobalWatcher)

\* path string p is a member of this.monitoredProjects
Monitored(p) == \E i \in DOMAIN monitoredProjects : monitoredProjects[i] = p

\* the number of watchers on the dependency directory of path string p
DepWatchersOn(watchers, p) == IF p \in DOMAIN watchers THEN watchers[p] ELSE 0

\* while the process lives: the set keeps its members, in their order; a
\* newcomer is in the set when its watchers are being set; and nothing is set
\* up again for a member: its dependency watchers stay as they are, no new
\* call of the set-up starts for it, and a watcher on its manifest is added
\* only by a call that was pending
C31_Step ==
    phase' # "exited" =>
        /\ IsPrefix(monitoredProjects, monitoredProjects')
        /\ \A i \in DOMAIN monitoredProjects :
              LET p == monitoredProjects[i]
              IN  /\ DepWatchersOn(depWatchers', p) = DepWatchersOn(depWatchers, p)
                  /\ {r \in registering' : r.path = p} \subseteq registering
                  /\ DepWatchersOn(manifestWatchers', p) # DepWatchersOn(manifestWatchers, p)
                        => \E r \in registering \ registering' : r.path = p

\* C31: the set of monitored projects only grows; a path is in the set from
\* before its watchers are set; and a member whose set-up failed or was
\* skipped stays a member and is passed over by every later scan.
C31_SetOnlyGrows ==
    /\ [](/\ \A p \in DOMAIN depWatchers \cup DOMAIN manifestWatchers : Monitored(p)
          /\ \A r \in registering : Monitored(r.path))
    /\ [][C31_Step]_vars

\* C31's case: a later scan has gone through its batches, having found a
\* member that has no dependency watcher, one because its set-up threw and
\* one because it has no dependency directory
C31_Witness ==
    /\ Len(scans) = 2
    /\ scans[2].stage = "done"
    /\ scans[2].found # <<>>
    /\ \E i, j \in DOMAIN scans[2].found :
            LET p == Dirname(scans[2].found[i])
                q == Dirname(scans[2].found[j])
            IN  /\ Monitored(p) /\ Monitored(q)
                /\ p \notin DOMAIN depWatchers /\ q \notin DOMAIN depWatchers
                /\ DependencyWatchThrows(p)
                /\ ~DirExists(Segments(q) \o <<NODE_MODULES>>)

\* C11: whenever SIGINT arrives after the status command has started, the
\* progress display is stopped and the process exits with code 0.
C11_Step == Interrupt => (exit' = "exit0" /\ multibarStopped')

C11_InterruptExitsCleanly == [][C11_Step]_vars

\* what does hold: once statusCommand has returned, SIGINT stops the display
\* and exits with code 0
InterruptExitsCleanlyOnceStarted ==
    [][(Interrupt /\ phase = "running") => (exit' = "exit0" /\ multibarStopped')]_vars

\* C20: when the 'change' callback of a project's manifest has run, the keys
\* of dependencyChains are exactly the names that the manifest of that project
\* declares (dependencies and devDependencies), the manifest being readable.
C20_Step ==
    \A i \in DOMAIN handling :
        (Reanalyze(i) /\ manifests[handling[i]].kind = "ok") =>
            DOMAIN dependencyChains' =
                DOMAIN Spread(manifests[handling[i]].dependencies,
                              manifests[handling[i]].devDependencies)

C20_SetIsManifestNames == [][C20_Step]_vars

\* what does hold: when a 'change' callback has run, the names declared by
\* the manifest of the current directory are keys, and no key is lost
CurrentNamesAdded_Step ==
    \A i \in DOMAIN handling :
        Reanalyze(i) =>
            /\ DOMAIN dependencyChains \subseteq DOMAIN dependencyChains'
            /\ manifests[cwd].kind = "ok" =>
                    DOMAIN Spread(manifests[cwd].dependencies, manifests[cwd].devDependencies)
                        \subseteq DOMAIN dependencyChains'

CurrentNamesAdded == [][CurrentNamesAdded_Step]_vars

=====
